---- MODULE Spec2Model ----
(***************************************************************************)
(* EvoSim: the Simulation orchestrator (src/simulation.js) with the prey   *)
(* (src/organism.js, first Organism class), the Predator                   *)
(* (src/unnamed/part_003) and the Environment (src/environment.js).        *)
(*                                                                         *)
(* Numbers.  The program computes in floating point.  The model keeps      *)
(* energy, resources, float alleles and temperatures as integers counted   *)
(* in 1/Scale of the program's unit (fixed point); a division rounds down. *)
(*                                                                         *)
(* A tick is one synchronous call.  The model splits it into its phases    *)
(* (pc) so that the states between the phases can be named by the          *)
(* properties; while a tick is in progress (pc # "idle") no other          *)
(* operation is enabled, as in the single-threaded program.                *)
(***************************************************************************)
EXTENDS Integers, Sequences, FiniteSets, TLC

VARIABLES
    config,                 \* this.config
    gridWidth, gridHeight,  \* globals of config.js, written by reset()
    MUTATION_RATE,          \* global of config.js, written by reset() (percent)
    environment,            \* this.environment (NoEnv = null)
    organisms,              \* this.organisms: the prey, in array order
    predators,              \* this.predators, in array order
    tick_count,             \* this.tick_count
    isRunning,              \* this.isRunning
    tickInterval,           \* this.tickInterval (0 = null)
    timers,                 \* the interval timers the host has scheduled
    nextOrganismId,         \* this.nextOrganismId
    resourcePlacementMode,  \* this.resourcePlacementMode
    manuallyPlacedNodes,    \* this.manuallyPlacedNodes
    pc,                     \* position inside tick(): idle, pred, prey, shuffle, repro, publish
    idx,                    \* the loop index i of the phase in progress
    preySpatialLookup,      \* tick local: cell -> ids of the prey indexed there
    huntedPreyIds,          \* tick local
    preyPotentialParents,   \* tick local: ids, in evaluation order
    preyNewborns,           \* tick local: offspring records
    uiMessage,              \* last message the UI manager was asked to show
    uiStats,                \* last statistics snapshot handed to ui.updateUI
    hist                    \* history of the tick in progress (observation only)

vars == << config, gridWidth, gridHeight, MUTATION_RATE, environment, organisms,
           predators, tick_count, isRunning, tickInterval, timers, nextOrganismId,
           resourcePlacementMode, manuallyPlacedNodes, pc, idx, preySpatialLookup,
           huntedPreyIds, preyPotentialParents, preyNewborns, uiMessage, uiStats,
           hist >>

simVars == << config, gridWidth, gridHeight, MUTATION_RATE, environment, organisms,
              predators, tick_count, nextOrganismId, resourcePlacementMode,
              manuallyPlacedNodes >>

tickLocals == << idx, preySpatialLookup, huntedPreyIds, preyPotentialParents,
                 preyNewborns >>

-----------------------------------------------------------------------------
(* Bounds of the exploration *)

Scale == 100
MaxTicks == 2
MaxGrid == 2
MaxMutations == 1
\* the calls made on an environment explored on its own
MaxCalls == 3
\* the updates such an environment has been through before: enough to fill a node
Replenishments == 32
Crowd == 100

-----------------------------------------------------------------------------
(* Program constants (config.js, shipped in src/utils.js) *)

MAX_LIFESPAN == 400
REPRODUCTION_AGE == 70
REPRODUCTION_ENERGY_THRESHOLD == 90
ENERGY_COST_OF_REPRODUCTION == 45
INITIAL_ENERGY == 60
MAX_ENERGY == 120
FOOD_ENERGY_VALUE == 30
TEMP_BASE == 25
TEMP_AMPLITUDE == 15
CELL_MAX_RESOURCES == 15
NODE_INITIAL_RESOURCES == 7
NON_NODE_INITIAL_RESOURCES == 1
MATING_SEARCH_RADIUS == 2
CLUSTER_RADIUS == 12
BASE_ENERGY_COST_PER_TICK == (6 * Scale) \div 10
MOVEMENT_ENERGY_COST == (15 * Scale) \div 100
FOOD_CONSUMPTION_RATE == (6 * Scale) \div 10
NODE_REPLENISH_RATE == (25 * Scale) \div 100
TEMP_PENALTY_FACTOR == 3              \* 0.03, in hundredths
MUTATION_AMOUNT == (5 * Scale) \div 100
INITIAL_GENE_VARIATION == (2 * Scale) \div 10
preyDetectionRange == 4

PREY_MAX_ENERGY == MAX_ENERGY * Scale
PREDATOR_MAX_ENERGY == (MAX_ENERGY * Scale * 12) \div 10
PREDATOR_INITIAL_ENERGY == (INITIAL_ENERGY * Scale * 15) \div 10
PREDATOR_MAX_AGE == (MAX_LIFESPAN * 8) \div 10

NoEnv == [width |-> 0, height |-> 0, temperature |-> 0, grid |-> << >>, resourceNodes |-> << >>]

-----------------------------------------------------------------------------
(* utils.js *)

Min2(a, b) == IF a <= b THEN a ELSE b
Max2(a, b) == IF a >= b THEN a ELSE b
Abs(a) == IF a < 0 THEN 0 - a ELSE a
Sign(a) == IF a > 0 THEN 1 ELSE IF a < 0 THEN 0 - 1 ELSE 0

clamp(value, lo, hi) == Max2(lo, Min2(value, hi))

\* getRandomInt(min, max) = floor(random * (max - min + 1)) + min: every integer
\* of min..max can come out, and with max below min every integer of max+1..min
getRandomInt(lo, hi) == IF hi >= lo THEN lo .. hi ELSE (hi + 1) .. lo

Steps == getRandomInt(0 - 1, 1)

\* (a + d + n) % n as the callers write it; with a outside 0..n-1 (an agent left
\* outside a grid that shrank) JavaScript's % keeps the sign of the dividend
JsMod(a, n) == IF a >= 0 THEN a % n ELSE 0 - ((0 - a) % n)
Wrap(a, d, n) == JsMod(a + d + n, n)

\* a removal that slips one place towards the front of the list
RemoveAtBelow(s, i) == [k \in 1 .. (Len(s) - 1) |-> IF k < i - 1 THEN s[k] ELSE s[k + 1]]

RemoveAt(s, i) == [k \in 1 .. (Len(s) - 1) |-> IF k < i THEN s[k] ELSE s[k + 1]]

RECURSIVE Perms(_)
Perms(S) == IF S = {} THEN { << >> }
            ELSE UNION { { <<x>> \o p : p \in Perms(S \ {x}) } : x \in S }

\* shuffleArray(array): any order of the same elements
shuffleArray(array) ==
    { [k \in 1 .. Len(array) |-> array[p[k]]] : p \in Perms(1 .. Len(array)) }

SeqToSet(s) == { s[k] : k \in 1 .. Len(s) }

-----------------------------------------------------------------------------
(* Environment (src/environment.js) *)

Cells(w, h) == (0 .. (w - 1)) \X (0 .. (h - 1))

\* BIOME_DEFINITIONS by quadrant: tempOffset (degrees) and moveCostMultiplier (tenths)
Biome(x, y, w, h) ==
    IF 2 * x < w /\ 2 * y < h THEN [name |-> "Tundra", tempOffset |-> 0 - 15, moveCostMultiplier |-> 13]
    ELSE IF 2 * x >= w /\ 2 * y < h THEN [name |-> "Forest", tempOffset |-> 0 - 2, moveCostMultiplier |-> 15]
    ELSE IF 2 * x < w /\ 2 * y >= h THEN [name |-> "Plains", tempOffset |-> 0, moveCostMultiplier |-> 10]
    ELSE [name |-> "Desert", tempOffset |-> 10, moveCostMultiplier |-> 12]

NewCell(x, y, w, h, isNode) ==
    [resourceAmount |-> IF isNode THEN NODE_INITIAL_RESOURCES * Scale
                        ELSE NON_NODE_INITIAL_RESOURCES * Scale,
     isNode |-> isNode,
     tempOffset |-> Biome(x, y, w, h).tempOffset * Scale,
     moveCostMultiplier |-> Biome(x, y, w, h).moveCostMultiplier]

\* the cells in the order the constructor visits them: y outer, x inner
RowMajor(w, h) == [k \in 1 .. (w * h) |-> << (k - 1) % w, (k - 1) \div w >>]

SelectCells(order, nodes) == SelectSeq(order, LAMBDA c : c \in nodes)

\* new Environment(w, h, ...) once the node cells are decided
EnvWithNodes(w, h, nodes) ==
    [width |-> w, height |-> h,
     temperature |-> TEMP_BASE * Scale,
     grid |-> [c \in Cells(w, h) |-> NewCell(c[1], c[2], w, h, c \in nodes)],
     resourceNodes |-> SelectCells(RowMajor(w, h), nodes)]

\* _generateClusterCenters: where a cluster centre can fall.  The first centre
\* drawn is always kept; on the grids of the model a further centre, 35 or more
\* away from it, adds no node set that one centre does not give already.
ClusterCentres(w, h) ==
    getRandomInt(CLUSTER_RADIUS + 2, w - 1 - (CLUSTER_RADIUS + 2))
    \X getRandomInt(CLUSTER_RADIUS + 2, h - 1 - (CLUSTER_RADIUS + 2))

\* the cells within CLUSTER_RADIUS of a centre
ClusterAround(centre, w, h) ==
    { c \in Cells(w, h) :
        (c[1] - centre[1]) * (c[1] - centre[1]) + (c[2] - centre[2]) * (c[2] - centre[2])
          <= CLUSTER_RADIUS * CLUSTER_RADIUS }

\* a constructor that drops the list handed to it in manual mode
NodeChoicesWithoutList(w, h, nodeDensity, placementMode, manualNodes) ==
    IF placementMode = "manual" THEN { {} }
    ELSE IF placementMode = "clustered"
    THEN { nodes \in SUBSET Cells(w, h) :
             \E centre \in ClusterCentres(w, h) : nodes = ClusterAround(centre, w, h) }
    ELSE IF nodeDensity > 0 THEN SUBSET Cells(w, h)
    ELSE { {} }

\* the node sets the constructor can decide on.  random: each cell is a node
\* when Math.random() < nodeDensity; manual: the cells named by the list;
\* clustered: the cells around a cluster centre.
NodeChoices(w, h, nodeDensity, placementMode, manualNodes) ==
    IF placementMode = "manual" THEN { SeqToSet(manualNodes) \cap Cells(w, h) }
    ELSE IF placementMode = "clustered"
    THEN { nodes \in SUBSET Cells(w, h) :
             \E centre \in ClusterCentres(w, h) : nodes = ClusterAround(centre, w, h) }
    ELSE IF nodeDensity > 0 THEN SUBSET Cells(w, h)
    ELSE { {} }

NewEnvironments(w, h, nodeDensity, placementMode, manualNodes) ==
    { EnvWithNodes(w, h, nodes) :
        nodes \in NodeChoices(w, h, nodeDensity, placementMode, manualNodes) }

InGrid(env, x, y) == x >= 0 /\ x < env.width /\ y >= 0 /\ y < env.height

\* getCell(x, y): HasCell is "the result is not null"
HasCell(env, x, y) == InGrid(env, x, y)
getCell(env, x, y) == env.grid[<< x, y >>]

\* sin(t * TEMP_FREQUENCY) in millionths, by sin x = x - x^3/6 (|error| < 1e-4 for
\* t <= 400, the ticks a run of the model can count)
SinMicro(t) == t * 1000 - (t * t * t) \div 6000

\* a consumeResourceAt that takes the requested amount whatever the balance
ConsumedInFull(env, x, y, amount) == IF ~HasCell(env, x, y) THEN 0 ELSE amount

\* an update that replenishes without the clamp
EnvUpdateUnclamped(env, currentTick) ==
    [env EXCEPT
       !.grid = [c \in DOMAIN env.grid |->
                   IF c \in SeqToSet(env.resourceNodes)
                   THEN [env.grid[c] EXCEPT !.resourceAmount = @ + NODE_REPLENISH_RATE]
                   ELSE env.grid[c]]]

\* update(currentTick)
EnvUpdate(env, currentTick) ==
    [env EXCEPT
       !.temperature = TEMP_BASE * Scale + (TEMP_AMPLITUDE * Scale * SinMicro(currentTick)) \div 1000000,
       !.grid = [c \in DOMAIN env.grid |->
                   IF c \in SeqToSet(env.resourceNodes)
                   THEN [env.grid[c] EXCEPT !.resourceAmount =
                           clamp(@ + NODE_REPLENISH_RATE, 0, CELL_MAX_RESOURCES * Scale)]
                   ELSE env.grid[c]]]

\* consumeResourceAt(x, y, amount): the amount consumed
Consumed(env, x, y, amount) ==
    IF ~HasCell(env, x, y) THEN 0 ELSE Min2(amount, getCell(env, x, y).resourceAmount)

\* consumeResourceAt(x, y, amount): the environment afterwards
consumeResourceAt(env, x, y, amount) ==
    IF ~HasCell(env, x, y) THEN env
    ELSE [env EXCEPT !.grid[<< x, y >>].resourceAmount = @ - Consumed(env, x, y, amount)]

\* the replenishment of the per-cell update (src/unnamed/part_003, lines 342-370):
\* the cells whose isNode flag is set
ReplenishedByFlag(env) ==
    [c \in DOMAIN env.grid |->
       IF env.grid[c].isNode
       THEN [env.grid[c] EXCEPT !.resourceAmount =
               clamp(@ + NODE_REPLENISH_RATE, 0, CELL_MAX_RESOURCES * Scale)]
       ELSE env.grid[c]]

\* findIndex(node => node.x === x && node.y === y): 0 stands for -1
findIndex(list, c) ==
    IF \E k \in 1 .. Len(list) : list[k] = c
    THEN CHOOSE k \in 1 .. Len(list) : list[k] = c /\ \A j \in 1 .. (k - 1) : list[j] # c
    ELSE 0

\* a toggleNode that leaves the node list alone
toggleNodeFlagOnly(env, x, y) ==
    IF ~InGrid(env, x, y) THEN env
    ELSE [env EXCEPT !.grid[<< x, y >>] =
            [@ EXCEPT !.isNode = ~@,
                      !.resourceAmount = IF ~env.grid[<< x, y >>].isNode
                                         THEN NODE_INITIAL_RESOURCES * Scale
                                         ELSE NON_NODE_INITIAL_RESOURCES * Scale]]

\* toggleNode(x, y): the environment afterwards (lines 205-227)
toggleNode(env, x, y) ==
    IF ~InGrid(env, x, y) THEN env
    ELSE LET isNode == ~env.grid[<< x, y >>].isNode
             nodeIndex == findIndex(env.resourceNodes, << x, y >>)
         IN [env EXCEPT
               !.grid[<< x, y >>] =
                  [@ EXCEPT !.isNode = isNode,
                            !.resourceAmount = IF isNode THEN NODE_INITIAL_RESOURCES * Scale
                                               ELSE NON_NODE_INITIAL_RESOURCES * Scale],
               !.resourceNodes = IF isNode /\ nodeIndex = 0 THEN Append(@, << x, y >>)
                                 ELSE IF ~isNode /\ nodeIndex # 0 THEN RemoveAt(@, nodeIndex)
                                 ELSE @]

\* a toggleNode that checks the upper bounds only
toggleNodeSucceedsBelowBounds(env, x, y) == x < env.width /\ y < env.height

\* toggleNode(x, y): what it returns
toggleNodeSucceeds(env, x, y) == InGrid(env, x, y)

-----------------------------------------------------------------------------
(* Prey: class Organism (src/organism.js, lines 4-391) *)

PreyTraits == { "metabolism_efficiency", "temperature_tolerance", "feeding_efficiency",
                "size", "speed", "camouflage", "reproductive_rate", "resistance" }

ClampedTraits == { "metabolism_efficiency", "feeding_efficiency" }

AlleleMin == Scale \div 10
AlleleMax == 2 * Scale

\* a getPhenotype in which H is dominant: any H allele gives High
getPhenotypeDominant(genes, geneName) ==
    IF geneName \notin DOMAIN genes
    THEN [sym |-> IF geneName = "temperature_tolerance" THEN "Medium" ELSE "number", twice |-> 0]
    ELSE IF geneName = "temperature_tolerance"
    THEN [sym |-> IF genes[geneName][1] = "H" \/ genes[geneName][2] = "H" THEN "High"
                  ELSE "Low",
          twice |-> 0]
    ELSE [sym |-> "number", twice |-> genes[geneName][1] + genes[geneName][2]]

\* getPhenotype(geneName).  An additive phenotype is the mean of two alleles; the
\* model returns their sum in "twice" (the mean doubled) to stay in the integers.
getPhenotype(genes, geneName) ==
    IF geneName \notin DOMAIN genes
    THEN [sym |-> IF geneName = "temperature_tolerance" THEN "Medium" ELSE "number", twice |-> 0]
    ELSE IF geneName = "temperature_tolerance"
    THEN [sym |-> IF genes[geneName][1] = "H" /\ genes[geneName][2] = "H" THEN "High"
                  ELSE IF genes[geneName][1] = "L" /\ genes[geneName][2] = "L" THEN "Low"
                  ELSE "Medium",
          twice |-> 0]
    ELSE [sym |-> "number", twice |-> genes[geneName][1] + genes[geneName][2]]

lowTempThreshold == TEMP_BASE * Scale - (TEMP_AMPLITUDE * Scale * 4) \div 10
highTempThreshold == TEMP_BASE * Scale + (TEMP_AMPLITUDE * Scale * 4) \div 10

\* tempPenaltyMultiplier of _metabolize, in tenths
tempPenaltyMultiplier(tempPhenotype, effectiveTemperature) ==
    IF tempPhenotype = "High"
    THEN (IF effectiveTemperature < lowTempThreshold THEN 25
          ELSE IF effectiveTemperature < highTempThreshold THEN 12 ELSE 8)
    ELSE IF tempPhenotype = "Low"
    THEN (IF effectiveTemperature > highTempThreshold THEN 25
          ELSE IF effectiveTemperature > lowTempThreshold THEN 12 ELSE 8)
    ELSE IF tempPhenotype = "Medium"
    THEN (IF effectiveTemperature < lowTempThreshold \/ effectiveTemperature > highTempThreshold
          THEN 15 ELSE 10)
    ELSE 10

\* the cost _metabolize deducts
MetabolicCost(org, env) ==
    (BASE_ENERGY_COST_PER_TICK * 2 * Scale
       * tempPenaltyMultiplier(getPhenotype(org.genes, "temperature_tolerance").sym,
                               env.temperature + getCell(env, org.x, org.y).tempOffset))
    \div (getPhenotype(org.genes, "metabolism_efficiency").twice * 10)

\* Organism._metabolize(environment)
PreyMetabolize(org, env) ==
    IF ~HasCell(env, org.x, org.y) THEN org
    ELSE [org EXCEPT !.energy = @ - MetabolicCost(org, env)]

\* canConsume of _feed
canConsume(org, env) ==
    IF ~HasCell(env, org.x, org.y) THEN 0
    ELSE Min2(getCell(env, org.x, org.y).resourceAmount, FOOD_CONSUMPTION_RATE)

energyGained(org, env) ==
    (Consumed(env, org.x, org.y, canConsume(org, env)) * FOOD_ENERGY_VALUE
       * getPhenotype(org.genes, "feeding_efficiency").twice) \div (2 * Scale)

\* a feed step that forgets the clamp
PreyFeedUnclamped(org, env) ==
    IF canConsume(org, env) > 0
    THEN [org EXCEPT !.energy = @ + energyGained(org, env)]
    ELSE org

\* Organism._feed(environment): the organism afterwards
PreyFeed(org, env) ==
    IF canConsume(org, env) > 0
    THEN [org EXCEPT !.energy = clamp(@ + energyGained(org, env), 0, PREY_MAX_ENERGY)]
    ELSE org

\* Organism._feed(environment): the environment afterwards
PreyFeedEnv(org, env) ==
    IF canConsume(org, env) > 0
    THEN consumeResourceAt(env, org.x, org.y, canConsume(org, env))
    ELSE env

DistSq(a, b) == (a.x - b.x) * (a.x - b.x) + (a.y - b.y) * (a.y - b.y)

\* the predators a prey flees from: alive and within preyDetectionRange
Threats(org, preds) ==
    { k \in 1 .. Len(preds) :
        preds[k].alive /\ DistSq(org, preds[k]) <= preyDetectionRange * preyDetectionRange }

\* weight = 1 / (distSq + 0.1) = 10 / (10 distSq + 1); the escape vector is kept
\* over the common denominator WeightDen, which leaves its direction unchanged
RECURSIVE Product(_, _)
Product(S, f) ==
    IF S = {} THEN 1
    ELSE LET k == CHOOSE j \in S : TRUE IN f[k] * Product(S \ {k}, f)

RECURSIVE Sum(_, _)
Sum(S, f) ==
    IF S = {} THEN 0
    ELSE LET k == CHOOSE j \in S : TRUE IN f[k] + Sum(S \ {k}, f)

\* Environment.getTotalResources()
getTotalResources(env) ==
    Sum(DOMAIN env.grid, [c \in DOMAIN env.grid |-> env.grid[c].resourceAmount])

escapeVector(org, preds) ==
    LET T == Threats(org, preds)
        den == [k \in T |-> 10 * DistSq(org, preds[k]) + 1]
        W == [k \in T |-> 10 * Product(T \ {k}, den)]
    IN [x |-> Sum(T, [k \in T |-> (org.x - preds[k].x) * W[k]]),
        y |-> Sum(T, [k \in T |-> (org.y - preds[k].y) * W[k]])]

\* clamp(Math.round(a / sqrt(a^2 + b^2)), -1, 1) for (a, b) # (0, 0)
RoundUnit(a, b) ==
    IF a > 0 /\ 3 * a * a >= b * b THEN 1
    ELSE IF a < 0 /\ 3 * a * a > b * b THEN 0 - 1
    ELSE 0

\* the step (dx, dy) _move decides on; (rdx, rdy) is what getRandomInt returns
\* when it is asked
PreyStepChoice(org, preds, rdx, rdy) ==
    LET e == escapeVector(org, preds)
        fdx == IF e.x = 0 /\ e.y = 0 THEN 0 ELSE RoundUnit(e.x, e.y)
        fdy == IF e.x = 0 /\ e.y = 0 THEN 0 ELSE RoundUnit(e.y, e.x)
    IN IF Threats(org, preds) # {} /\ ~(fdx = 0 /\ fdy = 0)
       THEN << fdx, fdy >>
       ELSE << rdx, rdy >>

\* the end of _move, shared by prey and predator: pay the cost, take the step
ApplyMove(agent, env, d, baseCost) ==
    IF d[1] = 0 /\ d[2] = 0 THEN agent
    ELSE LET nextX == Wrap(agent.x, d[1], gridWidth)
             nextY == Wrap(agent.y, d[2], gridHeight)
             moveCost == IF HasCell(env, nextX, nextY)
                         THEN (baseCost * getCell(env, nextX, nextY).moveCostMultiplier) \div 10
                         ELSE baseCost
         IN [agent EXCEPT !.energy = @ - moveCost, !.x = nextX, !.y = nextY]

\* Organism._move(environment, predators)
PreyMove(org, env, preds, rdx, rdy) ==
    ApplyMove(org, env, PreyStepChoice(org, preds, rdx, rdy), MOVEMENT_ENERGY_COST)

\* a death check that looks at the age alone
PreyCheckDeathByAge(org) ==
    IF org.age > MAX_LIFESPAN THEN [org EXCEPT !.alive = FALSE] ELSE org

\* a death check that lets a prey with exactly no energy live
PreyCheckDeathBelowZero(org) ==
    IF org.energy < 0 \/ org.age > MAX_LIFESPAN THEN [org EXCEPT !.alive = FALSE] ELSE org

\* Organism._checkDeath()
PreyCheckDeath(org) ==
    IF org.energy <= 0 \/ org.age > MAX_LIFESPAN THEN [org EXCEPT !.alive = FALSE] ELSE org

PreyAged(org) == [org EXCEPT !.age = @ + 1]

\* Organism.update(environment, predators): the organism afterwards
PreyUpdate(org, env, preds, rdx, rdy) ==
    IF ~org.alive THEN org
    ELSE CHOOSE after \in
           { PreyCheckDeath(fed) :
               fed \in { PreyFeed(burnt, env) :
                           burnt \in { PreyMetabolize(moved, env) :
                                         moved \in { PreyMove(aged, env, preds, rdx, rdy) :
                                                       aged \in { PreyAged(org) } } } } } : TRUE

\* Organism.update(environment, predators): the environment afterwards
PreyUpdateEnv(org, env, preds, rdx, rdy) ==
    IF ~org.alive THEN env
    ELSE CHOOSE fedEnv \in
           { PreyFeedEnv(burnt, env) :
               burnt \in { PreyMetabolize(moved, env) :
                             moved \in { PreyMove(aged, env, preds, rdx, rdy) :
                                           aged \in { PreyAged(org) } } } } : TRUE

-----------------------------------------------------------------------------
(* Prey reproduction: Organism.reproduce and _mutateGenotype *)

\* an inheritance whose fallback hands the pair of parent A over in reverse
InheritedPairsFallbackReversed(genesA, genesB, geneName) ==
    IF geneName \in DOMAIN genesB
    THEN { << genesA[geneName][i], genesB[geneName][j] >> :
             i \in { k + 1 : k \in getRandomInt(0, 1) }, j \in { k + 1 : k \in getRandomInt(0, 1) } }
    ELSE { << genesA[geneName][2], genesA[geneName][1] >> }

\* an inheritance that takes both alleles from the parent reproduce() is called on
InheritedPairsFromA(genesA, genesB, geneName) ==
    IF geneName \in DOMAIN genesB
    THEN { << genesA[geneName][i], genesA[geneName][j] >> :
             i \in { k + 1 : k \in getRandomInt(0, 1) }, j \in { k + 1 : k \in getRandomInt(0, 1) } }
    ELSE { genesA[geneName] }

\* the pairs one gene of the offspring can inherit
InheritedPairs(genesA, genesB, geneName) ==
    IF geneName \in DOMAIN genesB
    THEN { << genesA[geneName][i], genesB[geneName][j] >> :
             i \in { k + 1 : k \in getRandomInt(0, 1) }, j \in { k + 1 : k \in getRandomInt(0, 1) } }
    ELSE { genesA[geneName] }

\* the genotypes that take, for each gene, one of the pairs given for it
RECURSIVE Genotypes(_, _)
Genotypes(pairsOf, names) ==
    IF names = {} THEN { << >> }
    ELSE LET n == CHOOSE m \in names : TRUE
         IN { [g \in (DOMAIN rest) \cup {n} |-> IF g = n THEN pr ELSE rest[g]] :
                rest \in Genotypes(pairsOf, names \ {n}), pr \in pairsOf[n] }

\* the genotypes reproduce() can put together before mutation
InheritedGenotypes(genesA, genesB) ==
    Genotypes([n \in DOMAIN genesA |-> InheritedPairs(genesA, genesB, n)], DOMAIN genesA)

\* what getRandom(-MUTATION_AMOUNT, MUTATION_AMOUNT) adds: the two ends of the range
MutationDeltas == { 0 - MUTATION_AMOUNT, MUTATION_AMOUNT - 1 }

\* a mutation that turns a temperature allele into a third symbol
MutatedAllelesThirdSymbol(geneName, allele) ==
    IF geneName = "temperature_tolerance"
    THEN { "M" }
    ELSE IF geneName \in ClampedTraits
    THEN { clamp(allele + d, AlleleMin, AlleleMax) : d \in MutationDeltas }
    ELSE { allele + d : d \in MutationDeltas }

\* a mutation that leaves out the clamp
MutatedAllelesUnclamped(geneName, allele) ==
    IF geneName = "temperature_tolerance"
    THEN { IF allele = "H" THEN "L" ELSE "H" }
    ELSE { allele + d : d \in MutationDeltas }

\* the values one allele can have after its mutation roll succeeded
MutatedAlleles(geneName, allele) ==
    IF geneName = "temperature_tolerance"
    THEN { IF allele = "H" THEN "L" ELSE "H" }
    ELSE IF geneName \in ClampedTraits
    THEN { clamp(allele + d, AlleleMin, AlleleMax) : d \in MutationDeltas }
    ELSE { allele + d : d \in MutationDeltas }

\* the genotype with allele i of one gene replaced
WithAllele(genotype, geneName, i, v) ==
    [genotype EXCEPT ![geneName] = IF i = 1 THEN << v, @[2] >> ELSE << @[1], v >>]

\* _mutateGenotype(genotype): every allele mutates on its own roll; the model lets
\* at most `budget` of the rolls succeed.  With a mutation rate of 0 none does.
RECURSIVE MutatedGenotypes(_, _, _, _)
MutatedGenotypes(genotype, rate, budget, slots) ==
    IF rate = 0 \/ budget = 0 \/ slots = {} THEN { genotype }
    ELSE { genotype } \cup
         UNION { UNION { MutatedGenotypes(WithAllele(genotype, sl[1], sl[2], v), rate,
                                          budget - 1, slots \ {sl}) :
                           v \in MutatedAlleles(sl[1], genotype[sl[1]][sl[2]]) } :
                   sl \in slots }

AlleleSlots(genotype) == (DOMAIN genotype) \X {1, 2}

\* Organism.reproduce(partner): the offspring it can return (id -1 until the
\* simulation assigns one)
reproduce(parentA, partner) ==
    { [id |-> 0 - 1, age |-> 0, energy |-> INITIAL_ENERGY * Scale, alive |-> TRUE,
       x |-> parentA.x, y |-> parentA.y, genes |-> final, hasReproducedThisTick |-> FALSE] :
        final \in UNION { MutatedGenotypes(g, MUTATION_RATE, MaxMutations, AlleleSlots(g)) :
                            g \in InheritedGenotypes(parentA.genes, partner.genes) } }

-----------------------------------------------------------------------------
(* Predator (src/unnamed/part_003, lines 5-187) *)

\* the cost Predator._metabolize deducts
PredatorMetabolicCost(pred, env) ==
    LET effectiveTemperature == env.temperature + getCell(env, pred.x, pred.y).tempOffset
        tempDifference == Abs(effectiveTemperature - pred.genes.temperature_tolerance)
    IN (BASE_ENERGY_COST_PER_TICK * 12 * (100 * Scale + TEMP_PENALTY_FACTOR * tempDifference))
         \div (10 * pred.genes.metabolism_efficiency * 100)

\* Predator._metabolize(environment)
PredatorMetabolize(pred, env) ==
    IF ~HasCell(env, pred.x, pred.y) THEN pred
    ELSE [pred EXCEPT !.energy = @ - PredatorMetabolicCost(pred, env)]

\* _findNearbyPrey: positions in allOrganisms of the living prey within range
findNearbyPrey(pred, allOrganisms) ==
    { k \in 1 .. Len(allOrganisms) :
        allOrganisms[k].alive
        /\ DistSq(pred, allOrganisms[k]) * Scale * Scale
             <= pred.genes.detection_range * pred.genes.detection_range }

\* the closest of them: the first in array order with the least squared distance
closestPrey(pred, allOrganisms) ==
    LET near == findNearbyPrey(pred, allOrganisms)
    IN CHOOSE k \in near :
         \A j \in near : DistSq(pred, allOrganisms[k]) < DistSq(pred, allOrganisms[j])
                          \/ (DistSq(pred, allOrganisms[k]) = DistSq(pred, allOrganisms[j]) /\ k <= j)

\* the step Predator._move decides on
PredatorStepChoice(pred, allOrganisms, rdx, rdy) ==
    LET near == findNearbyPrey(pred, allOrganisms)
        tdx == IF near = {} THEN 0 ELSE Sign(allOrganisms[closestPrey(pred, allOrganisms)].x - pred.x)
        tdy == IF near = {} THEN 0 ELSE Sign(allOrganisms[closestPrey(pred, allOrganisms)].y - pred.y)
    IN IF tdx = 0 /\ tdy = 0 THEN << rdx, rdy >> ELSE << tdx, tdy >>

\* Predator._move(environment, allOrganisms)
PredatorMove(pred, env, allOrganisms, rdx, rdy) ==
    IF ~HasCell(env, pred.x, pred.y) THEN pred
    ELSE ApplyMove(pred, env, PredatorStepChoice(pred, allOrganisms, rdx, rdy),
                   (MOVEMENT_ENERGY_COST * 11) \div 10)

\* a death check that gives the predators the age limit of the prey
PredatorCheckDeathAtPreyAge(pred) ==
    IF pred.energy <= 0 \/ pred.age > MAX_LIFESPAN THEN [pred EXCEPT !.alive = FALSE] ELSE pred

\* a death check that looks at the age only
PredatorCheckDeathByAge(pred) ==
    IF pred.age > PREDATOR_MAX_AGE THEN [pred EXCEPT !.alive = FALSE] ELSE pred

\* Predator._checkDeath()
PredatorCheckDeath(pred) ==
    IF pred.energy <= 0 \/ pred.age > PREDATOR_MAX_AGE THEN [pred EXCEPT !.alive = FALSE] ELSE pred

\* hunt(organismsInCell): the prey the hunt can take, by id.  Every living prey of
\* the list can be the one whose roll succeeds (the rolls before it failing);
\* NoPrey is the hunt that takes none.
NoPrey == 0 - 1

\* a hunt that also rolls for prey that are already dead
huntChoicesAmongDead(pred, organismsInCell, allOrganisms) ==
    { NoPrey } \cup
    { allOrganisms[k].id : k \in { j \in 1 .. Len(allOrganisms) :
                                      allOrganisms[j].id \in SeqToSet(organismsInCell) } }

huntChoices(pred, organismsInCell, allOrganisms) ==
    IF ~pred.alive THEN { NoPrey }
    ELSE { NoPrey } \cup
         { allOrganisms[k].id : k \in { j \in 1 .. Len(allOrganisms) :
                                           allOrganisms[j].id \in SeqToSet(organismsInCell)
                                           /\ allOrganisms[j].alive
                                           /\ allOrganisms[j].id # pred.id } }

\* the predator after a successful hunt of a prey with the given energy
AfterKill(pred, preyEnergy) ==
    [pred EXCEPT !.energy = clamp(@ + (preyEnergy * 8) \div 10, 0, PREDATOR_MAX_ENERGY)]

-----------------------------------------------------------------------------
(* Simulation (src/simulation.js): seeding *)

\* what getRandom(-variation, variation) adds to a seeded float allele, and the
\* spread the predator genes are seeded with: the model seeds at the centre
SeedVariations == { 0 }

\* the allele pairs the Organism constructor can give one gene
SeedPairsWith(geneName, baseValue, variations) ==
    IF geneName = "temperature_tolerance" THEN { "H", "L" } \X { "H", "L" }
    ELSE IF geneName \in ClampedTraits
    THEN { << clamp(baseValue + a, AlleleMin, AlleleMax), clamp(baseValue + b, AlleleMin, AlleleMax) >> :
             a \in variations, b \in variations }
    ELSE { << baseValue + a, baseValue + b >> : a \in SeedVariations, b \in SeedVariations }

SeedPairs(geneName, baseValue) == SeedPairsWith(geneName, baseValue, SeedVariations)

\* initialPhenotypes of _createInitialPopulation
initialPhenotypes(settings) ==
    [n \in PreyTraits |-> IF n = "metabolism_efficiency" THEN settings.avgMetabolism
                           ELSE IF n = "feeding_efficiency" THEN settings.avgFeeding
                           ELSE 0]

\* the genotypes new Organism(id, initialPhenotypes, location) can start with
SeedGenotypes(settings) ==
    Genotypes([n \in PreyTraits |-> SeedPairs(n, initialPhenotypes(settings)[n])], PreyTraits)

\* the same for an initialGenes object with the genes `traits' and with the
\* variations given for the two clamped genes
SeedGenotypesWith(settings, traits, variations) ==
    Genotypes([n \in traits |-> SeedPairsWith(n, initialPhenotypes(settings)[n], variations)],
              traits)

\* new Organism(id, initialGenes, location)
NewOrganism(id, genes, loc) ==
    [id |-> id, age |-> 0, energy |-> INITIAL_ENERGY * Scale, alive |-> TRUE,
     x |-> loc[1], y |-> loc[2], genes |-> genes, hasReproducedThisTick |-> FALSE]

\* predatorGenes of _createInitialPopulation after the variation
predatorGenes ==
    { [metabolism_efficiency |-> (8 * Scale) \div 10 + v,
       temperature_tolerance |-> 25 * Scale + v,
       speed |-> (11 * Scale) \div 10 + v,
       detection_range |-> clamp(7 * Scale + v, 3 * Scale, 15 * Scale),
       hunting_efficiency |-> clamp((6 * Scale) \div 10 + v, Scale \div 10, (9 * Scale) \div 10)] :
        v \in SeedVariations }

\* new Predator(id, genes, location)
NewPredator(id, genes, loc) ==
    [id |-> id, age |-> 0, energy |-> PREDATOR_INITIAL_ENERGY, alive |-> TRUE,
     x |-> loc[1], y |-> loc[2], genes |-> genes, hasReproducedThisTick |-> FALSE]

initialPopNum(settings) ==
    Max2(1, (settings.gridWidth * settings.gridHeight * settings.popDensity) \div 100)

initialPredatorNum(settings) == Max2(1, (initialPopNum(settings) * 2) \div 100)

\* the random location of a seeded agent
SeedLocations(settings) ==
    getRandomInt(0, settings.gridWidth - 1) \X getRandomInt(0, settings.gridHeight - 1)

\* _createInitialPopulation(): the prey lists it can build (ids 0 .. n-1)
SeededPrey(settings) ==
    { [k \in 1 .. initialPopNum(settings) |-> NewOrganism(k - 1, pick[k][1], pick[k][2])] :
        pick \in [1 .. initialPopNum(settings) -> SeedGenotypes(settings) \X SeedLocations(settings)] }

\* _createInitialPopulation(): the predator lists it can build (ids n .. n+m-1)
SeededPredators(settings) ==
    { [k \in 1 .. initialPredatorNum(settings) |->
         NewPredator(initialPopNum(settings) + k - 1, pick[k][1], pick[k][2])] :
        pick \in [1 .. initialPredatorNum(settings) -> predatorGenes \X SeedLocations(settings)] }

\* the keys of the count objects of _calculateStats (lines 645-652)
StatCategories ==
    [temperature_tolerance |-> { "High", "Medium", "Low" },
     size |-> { "Large", "Small" },
     speed |-> { "Fast", "Slow" },
     camouflage |-> { "Camouflaged", "Conspicuous" },
     reproductive_rate |-> { "High", "Low" },
     resistance |-> { "Resistant", "Susceptible" }]

\* the counts of _calculateStats: a prey is counted under the key its
\* getPhenotype result is, when the count object has such a key (lines 654-685)
phenotypeCounts(prey) ==
    [t \in DOMAIN StatCategories |->
       [c \in StatCategories[t] |->
          Cardinality({ k \in 1 .. Len(prey) : getPhenotype(prey[k].genes, t).sym = c })]]

\* _calculateStats() reading the tick counter of the tick before
calculateStatsOfLastTick(tick, prey, preds) ==
    [tick |-> tick - 1, preyPopulation |-> Len(prey), predatorPopulation |-> Len(preds),
     counts |-> phenotypeCounts(prey)]

\* _calculateStats(): the tick, the two population sizes and, for each discrete
\* trait, the counts the reported frequencies are the quotients of
calculateStats(tick, prey, preds) ==
    [tick |-> tick, preyPopulation |-> Len(prey), predatorPopulation |-> Len(preds),
     counts |-> phenotypeCounts(prey)]

-----------------------------------------------------------------------------
(* Simulation: the spatial lookup and the mate search *)

Occupied(organismsList) ==
    { << organismsList[k].x, organismsList[k].y >> :
        k \in { j \in 1 .. Len(organismsList) : organismsList[j].alive } }

IdsOf(organismsList) == [k \in 1 .. Len(organismsList) |-> organismsList[k].id]

\* _buildSpatialLookup(organismsList): "x,y" -> the living organisms there, in
\* array order.  The lookup holds references; the model holds ids.
buildSpatialLookup(organismsList) ==
    [c \in Occupied(organismsList) |->
       IdsOf(SelectSeq(organismsList, LAMBDA o : o.alive /\ o.x = c[1] /\ o.y = c[2]))]

LookupAt(lookup, c) == IF c \in DOMAIN lookup THEN lookup[c] ELSE << >>

HasId(list, id) == \E k \in 1 .. Len(list) : list[k].id = id
IndexOfId(list, id) == CHOOSE k \in 1 .. Len(list) : list[k].id = id
ById(list, id) == list[IndexOfId(list, id)]

\* a search that reaches two cells farther than MATING_SEARCH_RADIUS
SearchOffsetsWider ==
    LET side == 2 * MATING_SEARCH_RADIUS + 5
        all == [k \in 1 .. (side * side) |->
                  << ((k - 1) \div side) - MATING_SEARCH_RADIUS - 2,
                     ((k - 1) % side) - MATING_SEARCH_RADIUS - 2 >>]
    IN SelectSeq(all, LAMBDA d : ~(d[1] = 0 /\ d[2] = 0))

\* the (dx, dy) of the two nested loops of _findPartner, in loop order
SearchOffsets ==
    LET side == 2 * MATING_SEARCH_RADIUS + 1
        all == [k \in 1 .. (side * side) |->
                  << ((k - 1) \div side) - MATING_SEARCH_RADIUS, ((k - 1) % side) - MATING_SEARCH_RADIUS >>]
    IN SelectSeq(all, LAMBDA d : ~(d[1] = 0 /\ d[2] = 0))

RECURSIVE Flatten(_)
Flatten(ss) == IF ss = << >> THEN << >> ELSE Head(ss) \o Flatten(Tail(ss))

\* a search that looks in the seeker's own cell first
PartnerCandidatesOwnCellFirst(parentA, spatialLookup) ==
    LookupAt(spatialLookup, << parentA.x, parentA.y >>)
    \o Flatten([k \in 1 .. Len(SearchOffsets) |->
                  LookupAt(spatialLookup,
                           << JsMod(parentA.x + SearchOffsets[k][1] + config.gridWidth, config.gridWidth),
                              JsMod(parentA.y + SearchOffsets[k][2] + config.gridHeight, config.gridHeight) >>)])

\* the potential partners in the order _findPartner looks at them: the
\* surrounding cells first, the seeker's own cell last
PartnerCandidates(parentA, spatialLookup) ==
    Flatten([k \in 1 .. Len(SearchOffsets) |->
               LookupAt(spatialLookup,
                        << JsMod(parentA.x + SearchOffsets[k][1] + config.gridWidth, config.gridWidth),
                           JsMod(parentA.y + SearchOffsets[k][2] + config.gridHeight, config.gridHeight) >>)])
    \o LookupAt(spatialLookup, << parentA.x, parentA.y >>)

\* an eligibility test that does not ask the partner for its age or energy
PartnerEligibleAnyState(parentA, id, prey) ==
    /\ HasId(prey, id)
    /\ id # parentA.id
    /\ ById(prey, id).alive
    /\ ~ById(prey, id).hasReproducedThisTick

\* the eligibility test of _findPartner.  A prey that is no longer in the
\* collection was removed because it is dead.
PartnerEligible(parentA, id, prey) ==
    /\ HasId(prey, id)
    /\ id # parentA.id
    /\ ById(prey, id).alive
    /\ ~ById(prey, id).hasReproducedThisTick
    /\ ById(prey, id).age >= REPRODUCTION_AGE
    /\ ById(prey, id).energy >= REPRODUCTION_ENERGY_THRESHOLD * Scale

\* _findPartner(parentA, spatialLookup): the id of the partner, NoPrey for null
findPartner(parentA, spatialLookup, prey) ==
    LET found == SelectSeq(PartnerCandidates(parentA, spatialLookup),
                           LAMBDA id : PartnerEligible(parentA, id, prey))
    IN IF found = << >> THEN NoPrey ELSE Head(found)

\* effectiveReproductionAge of the prey phase
effectiveReproductionAge(org) ==
    IF getPhenotype(org.genes, "reproductive_rate").sym = "High" THEN Max2(1, REPRODUCTION_AGE - 2)
    ELSE IF getPhenotype(org.genes, "reproductive_rate").sym = "Low" THEN REPRODUCTION_AGE + 2
    ELSE REPRODUCTION_AGE

\* the eligibility test of the prey phase
IsPotentialParent(org) ==
    org.age >= effectiveReproductionAge(org)
    /\ org.energy >= REPRODUCTION_ENERGY_THRESHOLD * Scale

\* a cost that applies the adjustment of a Low reproductive rate to every parent
reproductionCostAdjusted(org) == (ENERGY_COST_OF_REPRODUCTION * Scale * 11) \div 10

\* costParentA / costParentB of the reproduction phase
reproductionCost(org) ==
    IF getPhenotype(org.genes, "reproductive_rate").sym = "High"
    THEN (ENERGY_COST_OF_REPRODUCTION * Scale * 9) \div 10
    ELSE IF getPhenotype(org.genes, "reproductive_rate").sym = "Low"
    THEN (ENERGY_COST_OF_REPRODUCTION * Scale * 11) \div 10
    ELSE ENERGY_COST_OF_REPRODUCTION * Scale

\* a mating that forgets to set the flag
AfterMatingUnflagged(org) == [org EXCEPT !.energy = @ - reproductionCost(org)]

\* a parent after a mating: the cost paid, the flag set
AfterMating(org) ==
    [org EXCEPT !.energy = @ - reproductionCost(org), !.hasReproducedThisTick = TRUE]

\* a population test that leaves out the offspring born so far in the tick
BelowCapOfAgents(prey, preds, newborns) ==
    Len(prey) + Len(preds) < config.maxPopulation

\* the population test of the reproduction phase
BelowCap(prey, preds, newborns) ==
    Len(prey) + Len(preds) + Len(newborns) < config.maxPopulation

ResetFlag(agent) == [agent EXCEPT !.hasReproducedThisTick = FALSE]

-----------------------------------------------------------------------------
(* Simulation: stop(), start(), reset(), updateConfig() *)

NoTimer == 0

EmptyHist(ticks) ==
    [ticks |-> ticks, outcome |-> "none",
     before |-> [tick_count |-> 0, environment |-> NoEnv, organisms |-> << >>, predators |-> << >>],
     start |-> << >>, kills |-> << >>, removed |-> << >>, updated |-> << >>,
     starved |-> {}, famished |-> {}, matings |-> << >>]

\* a stop() that forgets clearInterval
StopEffectKeepsTimer ==
    IF ~isRunning
    THEN UNCHANGED << isRunning, tickInterval, timers >>
    ELSE /\ isRunning' = FALSE
         /\ timers' = timers
         /\ tickInterval' = NoTimer

\* stop(): what it does to the running flag and the timer
StopEffect ==
    IF ~isRunning
    THEN UNCHANGED << isRunning, tickInterval, timers >>
    ELSE /\ isRunning' = FALSE
         /\ timers' = timers \ { tickInterval }
         /\ tickInterval' = NoTimer

\* stop()
Stop ==
    /\ pc = "idle"
    /\ StopEffect
    /\ UNCHANGED << simVars, pc, tickLocals, uiMessage, uiStats, hist >>

\* a start() that also builds a new environment whenever the placement is random
envNeedsRecreateOnRandom ==
    \/ environment = NoEnv
    \/ environment.width # config.gridWidth
    \/ environment.height # config.gridHeight
    \/ resourcePlacementMode = "random"
    \/ /\ resourcePlacementMode = "manual"
       /\ SeqToSet(environment.resourceNodes) # SeqToSet(manuallyPlacedNodes)

\* envNeedsRecreate of start()
envNeedsRecreate ==
    \/ environment = NoEnv
    \/ environment.width # config.gridWidth
    \/ environment.height # config.gridHeight
    \/ /\ resourcePlacementMode = "manual"
       /\ SeqToSet(environment.resourceNodes) # SeqToSet(manuallyPlacedNodes)

\* start(), on the fields of the simulation
StartEffect ==
    /\ pc = "idle"
    /\ IF isRunning
       THEN UNCHANGED << simVars, isRunning, tickInterval, timers, pc, tickLocals, uiMessage,
                         uiStats >>
       ELSE /\ IF envNeedsRecreate
               THEN /\ manuallyPlacedNodes' =
                         IF environment # NoEnv /\ environment.width = config.gridWidth
                            /\ environment.height = config.gridHeight
                         THEN environment.resourceNodes ELSE manuallyPlacedNodes
                    /\ environment' \in NewEnvironments(config.gridWidth, config.gridHeight,
                                                        IF resourcePlacementMode = "random"
                                                        THEN config.nodeDensity ELSE 0,
                                                        resourcePlacementMode, manuallyPlacedNodes')
               ELSE UNCHANGED << environment, manuallyPlacedNodes >>
            /\ isRunning' = TRUE
            /\ tickInterval' = CHOOSE n \in 1 .. (Cardinality(timers) + 1) :
                                  n \notin (timers \ { tickInterval })
            /\ timers' = (timers \ { tickInterval }) \cup { tickInterval' }
            /\ UNCHANGED << config, gridWidth, gridHeight, MUTATION_RATE, organisms, predators,
                            tick_count, nextOrganismId, resourcePlacementMode, pc, tickLocals,
                            uiMessage, uiStats >>

\* start()
Start == StartEffect /\ UNCHANGED hist

\* reset()
Reset ==
    /\ pc = "idle"
    /\ hist.ticks < MaxTicks
    /\ StopEffect
    /\ tick_count' = 0
    /\ manuallyPlacedNodes' = IF resourcePlacementMode = "manual" /\ environment # NoEnv
                              THEN environment.resourceNodes ELSE << >>
    /\ MUTATION_RATE' = config.mutationRate
    /\ gridWidth' = config.gridWidth
    /\ gridHeight' = config.gridHeight
    /\ environment' \in NewEnvironments(config.gridWidth, config.gridHeight,
                                        IF resourcePlacementMode = "random"
                                        THEN config.nodeDensity ELSE 0,
                                        resourcePlacementMode, manuallyPlacedNodes')
    /\ organisms' \in SeededPrey(config)
    /\ predators' \in SeededPredators(config)
    /\ nextOrganismId' = initialPopNum(config) + initialPredatorNum(config)
    /\ uiMessage' = "reset"
    /\ uiStats' = calculateStats(0, organisms', predators')
    /\ hist' = EmptyHist(hist.ticks)
    /\ UNCHANGED << config, resourcePlacementMode, pc, tickLocals >>

\* the settings the model lets updateConfig() merge in
MaxPopulations == { 1, 4 }

\* updateConfig(newConfig), for a change of maxPopulation
UpdateConfig ==
    /\ pc = "idle"
    /\ \E m \in MaxPopulations : config' = [config EXCEPT !.maxPopulation = m]
    /\ config' # config
    /\ UNCHANGED << gridWidth, gridHeight, MUTATION_RATE, environment, organisms, predators,
                    tick_count, isRunning, tickInterval, timers, nextOrganismId,
                    resourcePlacementMode, manuallyPlacedNodes, pc, tickLocals, uiMessage,
                    uiStats, hist >>

-----------------------------------------------------------------------------
(* Simulation.tick() *)

\* a tick() that would run while stopped: the guard without the running flag
tickIgnoresRunningFlag(running, env) == env = NoEnv

\* the guard of tick(), line 380
tickReturnsEarly(running, env) == ~running \/ env = NoEnv

\* a tick that goes from its preparation straight to the prey loop
TickEnterPreyFirst ==
    IF tickReturnsEarly(isRunning, environment)
    THEN UNCHANGED vars
    ELSE /\ tick_count' = tick_count + 1
         /\ environment' = EnvUpdate(environment, tick_count')
         /\ organisms' = [k \in 1 .. Len(organisms) |-> ResetFlag(organisms[k])]
         /\ predators' = [k \in 1 .. Len(predators) |-> ResetFlag(predators[k])]
         /\ preyNewborns' = << >>
         /\ preyPotentialParents' = << >>
         /\ huntedPreyIds' = {}
         /\ preySpatialLookup' = buildSpatialLookup(organisms')
         /\ pc' = "prey"
         /\ idx' = Len(organisms)
         /\ hist' = [EmptyHist(hist.ticks + 1) EXCEPT
                        !.outcome = "running",
                        !.before = [tick_count |-> tick_count, environment |-> environment,
                                    organisms |-> organisms, predators |-> predators],
                        !.start = organisms']
         /\ UNCHANGED << config, gridWidth, gridHeight, MUTATION_RATE, isRunning, tickInterval,
                         timers, nextOrganismId, resourcePlacementMode, manuallyPlacedNodes,
                         uiMessage, uiStats >>

\* tick(), lines 380-398: the guard, the counter, the environment update, the
\* flag reset and the spatial lookup.  A call that fails the guard returns.
TickEnter ==
    IF tickReturnsEarly(isRunning, environment)
    THEN UNCHANGED vars
    ELSE /\ tick_count' = tick_count + 1
         /\ environment' = EnvUpdate(environment, tick_count')
         /\ organisms' = [k \in 1 .. Len(organisms) |-> ResetFlag(organisms[k])]
         /\ predators' = [k \in 1 .. Len(predators) |-> ResetFlag(predators[k])]
         /\ preyNewborns' = << >>
         /\ preyPotentialParents' = << >>
         /\ huntedPreyIds' = {}
         /\ preySpatialLookup' = buildSpatialLookup(organisms')
         /\ pc' = "pred"
         /\ idx' = Len(predators)
         /\ hist' = [EmptyHist(hist.ticks + 1) EXCEPT
                        !.outcome = "running",
                        !.before = [tick_count |-> tick_count, environment |-> environment,
                                    organisms |-> organisms, predators |-> predators],
                        !.start = organisms']
         /\ UNCHANGED << config, gridWidth, gridHeight, MUTATION_RATE, isRunning, tickInterval,
                         timers, nextOrganismId, resourcePlacementMode, manuallyPlacedNodes,
                         uiMessage, uiStats >>

\* the interval callback of start(), lines 337-346
TimerFire ==
    /\ pc = "idle"
    /\ hist.ticks < MaxTicks
    /\ \E t \in timers :
         IF isRunning
         THEN TickEnter
         ELSE /\ timers' = timers \ { tickInterval }
              /\ tickInterval' = NoTimer
              /\ UNCHANGED << simVars, isRunning, pc, tickLocals, uiMessage, uiStats, hist >>

\* tick() called by anyone else (it is a public method)
TickCall ==
    /\ pc = "idle"
    /\ hist.ticks < MaxTicks
    /\ TickEnter

\* one round of the predator loop, lines 400-415
PredatorStep ==
    /\ pc = "pred"
    /\ idx >= 1
    /\ LET pred == predators[idx]
           preyInCell == LookupAt(preySpatialLookup, << pred.x, pred.y >>)
       IN \E rdx \in Steps, rdy \in Steps :
            \E moved \in { PredatorMove(PredatorMetabolize([pred EXCEPT !.age = @ + 1], environment),
                                        environment, organisms, rdx, rdy) } :
               \E huntedId \in huntChoices(moved, preyInCell, organisms) :
                 \E after \in { PredatorCheckDeath(IF huntedId = NoPrey THEN moved
                                                    ELSE AfterKill(moved, ById(organisms, huntedId).energy)) } :
                    /\ organisms' = IF huntedId = NoPrey THEN organisms
                                     ELSE [organisms EXCEPT ![IndexOfId(organisms, huntedId)].alive = FALSE]
                    /\ huntedPreyIds' = IF huntedId = NoPrey THEN huntedPreyIds
                                         ELSE huntedPreyIds \cup { huntedId }
                    /\ predators' = IF after.alive THEN [predators EXCEPT ![idx] = after]
                                     ELSE RemoveAt(predators, idx)
                    /\ hist' = IF huntedId = NoPrey THEN hist
                                ELSE [hist EXCEPT !.kills = Append(@,
                                        [predator |-> pred.id, px |-> moved.x, py |-> moved.y,
                                         prey |-> huntedId,
                                         qx |-> ById(organisms, huntedId).x,
                                         qy |-> ById(organisms, huntedId).y])]
    /\ idx' = idx - 1
    /\ UNCHANGED << config, gridWidth, gridHeight, MUTATION_RATE, environment, tick_count,
                    isRunning, tickInterval, timers, nextOrganismId, resourcePlacementMode,
                    manuallyPlacedNodes, pc, preySpatialLookup, preyPotentialParents,
                    preyNewborns, uiMessage, uiStats >>

\* the predator loop is over: on to the prey loop
PredatorsDone ==
    /\ pc = "pred"
    /\ idx = 0
    /\ pc' = "prey"
    /\ idx' = Len(organisms)
    /\ UNCHANGED << simVars, isRunning, tickInterval, timers, preySpatialLookup, huntedPreyIds,
                    preyPotentialParents, preyNewborns, uiMessage, uiStats, hist >>

\* a prey loop that forgets the hunted set
neverHunted(hunted, org) == FALSE

\* huntedPreyIds.has(org.id), line 422
wasHunted(hunted, org) == org.id \in hunted

\* one round of the prey loop, lines 418-452
PreyStep ==
    /\ pc = "prey"
    /\ idx >= 1
    /\ LET org == organisms[idx]
       IN IF wasHunted(huntedPreyIds, org)
          THEN /\ organisms' = RemoveAt(organisms, idx)
               /\ UNCHANGED << environment, preyPotentialParents >>
               /\ hist' = [hist EXCEPT !.removed = Append(@,
                               [org |-> org,
                                consumed |-> getTotalResources(environment)
                                               - getTotalResources(environment')])]
          ELSE \E rdx \in Steps, rdy \in Steps :
               \E after \in { PreyUpdate(org, environment, predators, rdx, rdy) },
                  burnt \in { PreyMetabolize(PreyMove(PreyAged(org), environment, predators, rdx, rdy),
                                             environment) } :
                    /\ environment' = PreyUpdateEnv(org, environment, predators, rdx, rdy)
                    /\ organisms' = IF after.alive THEN [organisms EXCEPT ![idx] = after]
                                     ELSE RemoveAt(organisms, idx)
                    /\ preyPotentialParents' =
                         IF after.alive /\ IsPotentialParent(after)
                         THEN Append(preyPotentialParents, after.id)
                         ELSE preyPotentialParents
                    /\ hist' = [hist EXCEPT
                                   !.updated = Append(@, org.id),
                                   !.starved = IF burnt.energy <= 0 THEN @ \cup { org.id } ELSE @,
                                   !.famished = IF PreyFeed(burnt, environment).energy <= 0
                                                THEN @ \cup { org.id } ELSE @]
    /\ idx' = idx - 1
    /\ UNCHANGED << config, gridWidth, gridHeight, MUTATION_RATE, predators, tick_count,
                    isRunning, tickInterval, timers, nextOrganismId, resourcePlacementMode,
                    manuallyPlacedNodes, pc, preySpatialLookup, huntedPreyIds, preyNewborns,
                    uiMessage, uiStats >>

\* the prey loop is over: shuffleArray(preyPotentialParents), line 455
Shuffle ==
    /\ pc = "prey"
    /\ idx = 0
    /\ preyPotentialParents' \in shuffleArray(preyPotentialParents)
    /\ pc' = "repro"
    /\ idx' = 1
    /\ UNCHANGED << simVars, isRunning, tickInterval, timers, preySpatialLookup, huntedPreyIds,
                    preyNewborns, uiMessage, uiStats, hist >>

\* an id assignment that hands out the id before the counter
idOfPreviousAgent(offspring, next) == [offspring EXCEPT !.id = next - 1]

\* offspring.id = this.nextOrganismId++ (line 470): the offspring with its id
idAssigned(offspring, next) == [offspring EXCEPT !.id = next]

\* one round of the reproduction loop, lines 459-499
ReproductionStep ==
    /\ pc = "repro"
    /\ idx <= Len(preyPotentialParents)
    /\ LET parentA == ById(organisms, preyPotentialParents[idx])
           partnerId == findPartner(parentA, preySpatialLookup, organisms)
       IN IF ~parentA.alive \/ parentA.hasReproducedThisTick
          THEN /\ idx' = idx + 1
               /\ UNCHANGED << organisms, preyNewborns, nextOrganismId, hist >>
          ELSE IF ~(partnerId # NoPrey /\ ById(organisms, partnerId).alive
                    /\ ~ById(organisms, partnerId).hasReproducedThisTick)
          THEN /\ idx' = idx + 1
               /\ UNCHANGED << organisms, preyNewborns, nextOrganismId, hist >>
          ELSE IF ~BelowCap(organisms, predators, preyNewborns)
          THEN /\ idx' = Len(preyPotentialParents) + 1
               /\ UNCHANGED << organisms, preyNewborns, nextOrganismId, hist >>
          ELSE \E child \in reproduce(parentA, ById(organisms, partnerId)) :
                 /\ preyNewborns' = Append(preyNewborns, idAssigned(child, nextOrganismId))
                 /\ nextOrganismId' = nextOrganismId + 1
                 /\ organisms' = [k \in 1 .. Len(organisms) |->
                                    IF organisms[k].id \in { parentA.id, partnerId }
                                    THEN AfterMating(organisms[k]) ELSE organisms[k]]
                 /\ hist' = [hist EXCEPT !.matings = Append(@,
                                 [a |-> parentA.id, b |-> partnerId, child |-> nextOrganismId])]
                 /\ idx' = idx + 1
    /\ UNCHANGED << config, gridWidth, gridHeight, MUTATION_RATE, environment, predators,
                    tick_count, isRunning, tickInterval, timers, resourcePlacementMode,
                    manuallyPlacedNodes, pc, preySpatialLookup, huntedPreyIds,
                    preyPotentialParents, uiMessage, uiStats >>

\* the reproduction loop is over: this.organisms.push(...preyNewborns), line 501
Newborns ==
    /\ pc = "repro"
    /\ idx > Len(preyPotentialParents)
    /\ organisms' = organisms \o preyNewborns
    /\ pc' = "publish"
    /\ UNCHANGED << config, gridWidth, gridHeight, MUTATION_RATE, environment, predators,
                    tick_count, isRunning, tickInterval, timers, nextOrganismId,
                    resourcePlacementMode, manuallyPlacedNodes, tickLocals, uiMessage, uiStats,
                    hist >>

\* tick() returns: its locals are gone
LocalsDropped ==
    /\ idx' = 0
    /\ preySpatialLookup' = << >>
    /\ huntedPreyIds' = {}
    /\ preyPotentialParents' = << >>
    /\ preyNewborns' = << >>

\* an extinction check that waits for the predators to die out as well
stopsOnTotalExtinction(prey, preds) == Len(prey) = 0 /\ Len(preds) = 0

\* the extinction check stops the simulation: lines 515-526, both branches
stopsOnExtinction(prey, preds) == Len(prey) = 0

\* lines 505-531: statistics, UI, drawing, extinction check
Publish ==
    /\ pc = "publish"
    /\ uiStats' = calculateStats(tick_count, organisms, predators)
    /\ IF stopsOnExtinction(organisms, predators)
       THEN /\ StopEffect
            /\ uiMessage' = "extinction"
       ELSE /\ UNCHANGED << isRunning, tickInterval, timers >>
            /\ uiMessage' = IF Len(predators) = 0 THEN "info" ELSE uiMessage
    /\ pc' = "idle"
    /\ LocalsDropped
    /\ hist' = [hist EXCEPT !.outcome = "completed"]
    /\ UNCHANGED simVars

\* a catch block that reports the error and leaves the simulation running
PublishThrowsKeepsRunning ==
    /\ pc = "publish"
    /\ uiMessage' = "error"
    /\ pc' = "idle"
    /\ LocalsDropped
    /\ hist' = [hist EXCEPT !.outcome = "failed"]
    /\ UNCHANGED << simVars, isRunning, tickInterval, timers, uiStats >>

\* lines 533-539: ui.updateUI (line 508) or the drawing (line 512) throws; the
\* catch block stops the simulation and reports the error
PublishThrows ==
    /\ pc = "publish"
    /\ \E site \in { "updateUI", "draw" } :
         uiStats' = IF site = "draw" THEN calculateStats(tick_count, organisms, predators)
                    ELSE uiStats
    /\ StopEffect
    /\ uiMessage' = "error"
    /\ pc' = "idle"
    /\ LocalsDropped
    /\ hist' = [hist EXCEPT !.outcome = "failed"]
    /\ UNCHANGED simVars

-----------------------------------------------------------------------------
(* The states the exploration starts from *)

\* the settings main.js hands to the constructor, on a grid the model can cover
ModelSettings(w, h, cap) ==
    [gridWidth |-> w, gridHeight |-> h, popDensity |-> 50, nodeDensity |-> 5,
     avgMetabolism |-> Scale, avgFeeding |-> Scale, mutationRate |-> 5, maxPopulation |-> cap]

\* the settings of a run on a single cell
CellSettings(metabolism, rate, cap) ==
    [ModelSettings(1, 1, cap) EXCEPT !.avgMetabolism = metabolism, !.mutationRate = rate]

\* the settings such a run was reset under: a popDensity that seeds n prey
Seeding(settings, n) == [settings EXCEPT !.popDensity = 100 * n]

\* a state reset() leaves under the settings: every cell a resource node (none
\* when nodeDensity is 0), every
\* agent seeded at (0, 0), every prey with the temperature alleles given
\* (lines 239-286)
AfterReset(settings, alleles) ==
    [tick_count |-> 0,
     environment |-> CHOOSE e \in NewEnvironments(settings.gridWidth, settings.gridHeight,
                                                  settings.nodeDensity, "random", << >>) :
                       settings.nodeDensity > 0 =>
                         SeqToSet(e.resourceNodes)
                           = Cells(settings.gridWidth, settings.gridHeight),
     organisms |-> [k \in 1 .. initialPopNum(settings) |->
                      NewOrganism(k - 1,
                                  CHOOSE g \in SeedGenotypes(settings) :
                                    g["temperature_tolerance"] = alleles,
                                  << 0, 0 >>)],
     predators |-> [k \in 1 .. initialPredatorNum(settings) |->
                      NewPredator(initialPopNum(settings) + k - 1,
                                  CHOOSE g \in predatorGenes : TRUE, << 0, 0 >>)]]

\* one round of the prey loop of a tick in which getRandomInt returns 0 for every
\* step: the prey list and the environment after the update of prey i
QuietPreyRound(prey, env, preds, i) ==
    CHOOSE r \in { [organisms |-> IF after.alive THEN [prey EXCEPT ![i] = after]
                                  ELSE RemoveAt(prey, i),
                    environment |-> fedEnv] :
                     after \in { PreyUpdate(prey[i], env, preds, 0, 0) },
                     fedEnv \in { PreyUpdateEnv(prey[i], env, preds, 0, 0) } } : TRUE

\* the rounds of that loop for the prey from index hi down to index lo
RECURSIVE QuietPreyRounds(_, _, _, _)
QuietPreyRounds(s, preds, lo, hi) ==
    IF lo > hi THEN s
    ELSE IF lo = hi THEN QuietPreyRound(s.organisms, s.environment, preds, lo)
    ELSE CHOOSE r \in { QuietPreyRounds(upper, preds, lo, (lo + hi) \div 2) :
                          upper \in { QuietPreyRounds(s, preds, (lo + hi) \div 2 + 1, hi) } } : TRUE

\* the prey loop of such a tick
QuietPreyLoop(prey, env, preds, i) ==
    QuietPreyRounds([organisms |-> prey, environment |-> env], preds, 1, i)

\* Predator.update of such a tick, hunt() taking no prey
QuietPredator(pred, env, prey) ==
    PredatorCheckDeath(PredatorMove(PredatorMetabolize([pred EXCEPT !.age = @ + 1], env),
                                    env, prey, 0, 0))

\* the predator loop of such a tick: the predators it leaves
QuietPredatorLoop(s, env) ==
    SelectSeq([k \in 1 .. Len(s.predators) |-> QuietPredator(s.predators[k], env, s.organisms)],
              LAMBDA p : p.alive)

\* the two loops, after environment.update
QuietLoops(s, env) ==
    CHOOSE r \in { [tick_count |-> s.tick_count + 1, environment |-> fed.environment,
                    organisms |-> fed.organisms, predators |-> fed.predators] :
                     fed \in { [predators |-> preds] @@ QuietPreyLoop(s.organisms, env, preds,
                                                                     Len(s.organisms)) :
                                 preds \in { QuietPredatorLoop(s, env) } } } : TRUE

\* tick() when no random step is taken, no hunt roll succeeds and no prey gets
\* an offspring (lines 379-540); the comparison has the state evaluated in full
QuietTick(s) ==
    CHOOSE r \in { QuietLoops(s, env) : env \in { EnvUpdate(s.environment, s.tick_count + 1) } } : r = r

\* n such ticks
RECURSIVE QuietTicks(_, _)
QuietTicks(s, n) ==
    IF n = 0 THEN s
    ELSE IF n = 1 THEN QuietTick(s)
    ELSE CHOOSE r \in { QuietTicks(half, n - n \div 2) :
                          half \in { QuietTicks(s, n \div 2) } } : TRUE

\* a prey that its next _metabolize leaves without energy
Hungry(s) ==
    \E k \in 1 .. Len(s.organisms) :
      s.organisms[k].energy
        <= MetabolicCost(s.organisms[k], EnvUpdate(s.environment, s.tick_count + 1))

\* such ticks until a prey is hungry, while the prey are too young to mate
RECURSIVE QuietUntil(_, _, _)
QuietUntil(s, n, until) ==
    IF n <= 0 \/ (until = "hungry" /\ Hungry(s)) \/ (until = "few" /\ Len(s.organisms) <= 2) THEN s
    ELSE IF n = 1 THEN QuietTick(s)
    ELSE CHOOSE r \in { QuietUntil(half, n - n \div 2, until) :
                          half \in { QuietUntil(s, n \div 2, until) } } : TRUE

QuietUntilHungry(s) == QuietUntil(s, REPRODUCTION_AGE - 3 - s.tick_count, "hungry")

\* such ticks until the prey have starved down to a few
QuietUntilFew(s) == QuietUntil(s, REPRODUCTION_AGE - 3 - s.tick_count, "few")

\* Predator.update of a tick in which its roll for the last prey of the list
\* succeeds
HuntingPredator(pred, env, prey) ==
    PredatorCheckDeath(AfterKill(PredatorMove(PredatorMetabolize([pred EXCEPT !.age = @ + 1], env),
                                              env, prey, 0, 0),
                                 prey[Len(prey)].energy))

\* the two loops of such a tick of one predator: the prey loop drops the prey taken
HuntingLoops(s, env) ==
    CHOOSE r \in { [tick_count |-> s.tick_count + 1, environment |-> fed.environment,
                    organisms |-> fed.organisms, predators |-> fed.predators] :
                     fed \in { [predators |-> preds]
                               @@ QuietPreyLoop([s.organisms EXCEPT ![Len(s.organisms)].alive = FALSE], env,
                                                preds, Len(s.organisms)) :
                                 preds \in { SelectSeq(<< HuntingPredator(s.predators[1], env,
                                                                          s.organisms) >>,
                                                       LAMBDA p : p.alive) } } } : TRUE

\* tick() when the one predator takes the last prey and nothing else is random
HuntingTick(s) ==
    CHOOSE r \in { HuntingLoops(s, env) : env \in { EnvUpdate(s.environment, s.tick_count + 1) } } : r = r

\* the one predator would starve in the coming tick, and more prey are left than
\* the run spares
Starving(s, spare) ==
    /\ Len(s.predators) = 1
    /\ Len(s.organisms) > spare
    /\ s.predators[1].age < PREDATOR_MAX_AGE
    /\ ~QuietPredator(s.predators[1], EnvUpdate(s.environment, s.tick_count + 1),
                      s.organisms).alive

\* a tick of a run whose predator takes a prey when it would starve otherwise;
\* when the tick leaves no prey the simulation stops and start() is called again
LeanTick(s, spare) == IF Starving(s, spare) THEN HuntingTick(s) ELSE QuietTick(s)

\* such ticks up to the tick given
RECURSIVE LeanTicks(_, _, _)
LeanTicks(s, upTo, spare) ==
    IF s.tick_count >= upTo THEN s
    ELSE IF s.tick_count + 1 = upTo THEN LeanTick(s, spare)
    ELSE CHOOSE r \in { LeanTicks(half, upTo, spare) :
                          half \in { LeanTicks(s, (s.tick_count + upTo) \div 2, spare) } } : TRUE

\* runs the simulation has been through: reset() under the seeding settings,
\* start(), quiet ticks up to the tick before the prey come of age, until a
\* prey is hungry or until few prey are left, or lean ticks up to the tick before
\* an age limit, and an updateConfig() that has lowered popDensity since
MidRun ==
    { \* two prey and a predator in one cell, mutation on
      [settings |-> CellSettings((3 * Scale) \div 2, 5, 4), prey |-> 2,
       alleles |-> << "L", "L" >>, until |-> "of age", ticks |-> MaxTicks - 1],
      \* the same with mutation off, two ticks to go
      [settings |-> CellSettings((3 * Scale) \div 2, 0, 4), prey |-> 2,
       alleles |-> << "L", "L" >>, until |-> "of age", ticks |-> 0],
      \* three prey and a predator in one cell, mutation off, two ticks to go: the
      \* prey left over in the first tick looks for a partner in the second
      [settings |-> CellSettings((3 * Scale) \div 2, 0, 6), prey |-> 3,
       alleles |-> << "L", "L" >>, until |-> "of age", ticks |-> 0],
      \* two prey with a costly metabolism: the cell is eaten empty, one goes hungry
      [settings |-> CellSettings(Scale \div 2, 5, 4), prey |-> 2,
       alleles |-> << "H", "H" >>, until |-> "hungry", ticks |-> MaxTicks - 1],
      \* a crowd seeded with two predators on a cell that is no node, starved down
      \* to two prey
      [settings |-> [CellSettings(Scale \div 2, 5, 6) EXCEPT !.nodeDensity = 0], prey |-> Crowd,
       alleles |-> << "H", "H" >>, until |-> "few", ticks |-> MaxTicks - 1],
      \* four prey under a cap that lets none mate, and a predator that lives on
      \* them up to its age limit
      [settings |-> CellSettings((3 * Scale) \div 2, 0, 2), prey |-> 4,
       alleles |-> << "L", "L" >>, until |-> "old predator", ticks |-> 0],
      \* one prey that outlives its predator, up to its age limit
      [settings |-> CellSettings((3 * Scale) \div 2, 0, 2), prey |-> 1,
       alleles |-> << "L", "L" >>, until |-> "old prey", ticks |-> 0] }

\* the state such a run has reached
Reached(run) ==
    CHOOSE r \in { IF run.until = "hungry" THEN QuietUntilHungry(s)
                   ELSE IF run.until = "few" THEN QuietUntilFew(s)
                   ELSE IF run.until = "old predator" THEN LeanTicks(s, PREDATOR_MAX_AGE - 1, 0)
                   ELSE IF run.until = "old prey" THEN LeanTicks(s, MAX_LIFESPAN - 1, 1)
                   ELSE QuietTicks(s, REPRODUCTION_AGE - 1) :
                     s \in { AfterReset(Seeding(run.settings, run.prey), run.alleles) } } : TRUE

\* the state the constructor leaves (lines 10-38)
Constructed ==
    /\ config = ModelSettings(MaxGrid, 1, 4)
    /\ gridWidth = 100
    /\ gridHeight = 100
    /\ MUTATION_RATE = 5
    /\ environment = NoEnv
    /\ organisms = << >>
    /\ predators = << >>
    /\ tick_count = 0
    /\ isRunning = FALSE
    /\ tickInterval = NoTimer
    /\ timers = {}
    /\ nextOrganismId = 0
    /\ uiStats = calculateStats(0, << >>, << >>)
    /\ uiMessage = "none"
    /\ hist = EmptyHist(0)

Running(run) ==
    /\ config = run.settings
    /\ gridWidth = run.settings.gridWidth
    /\ gridHeight = run.settings.gridHeight
    /\ MUTATION_RATE = run.settings.mutationRate
    /\ \E s \in { Reached(run) } :
          /\ environment = s.environment
          /\ organisms = s.organisms
          /\ predators = s.predators
          /\ tick_count = s.tick_count
          /\ uiStats = calculateStats(s.tick_count, s.organisms, s.predators)
          /\ uiMessage = IF Len(s.organisms) = 0 THEN "extinction"
                         ELSE IF Len(s.predators) = 0 THEN "info" ELSE "reset"
    /\ isRunning = TRUE
    /\ tickInterval = 1
    /\ timers = { 1 }
    /\ nextOrganismId = initialPopNum(Seeding(run.settings, run.prey))
                        + initialPredatorNum(Seeding(run.settings, run.prey))
    /\ hist = EmptyHist(run.ticks)

Init ==
    /\ Constructed \/ \E run \in MidRun : Running(run)
    /\ resourcePlacementMode = "random"
    /\ manuallyPlacedNodes = << >>
    /\ pc = "idle"
    /\ idx = 0
    /\ preySpatialLookup = << >>
    /\ huntedPreyIds = {}
    /\ preyPotentialParents = << >>
    /\ preyNewborns = << >>

Next ==
    \/ Reset
    \/ Start
    \/ Stop
    \/ UpdateConfig
    \/ TimerFire
    \/ TickCall
    \/ PredatorStep
    \/ PredatorsDone
    \/ PreyStep
    \/ Shuffle
    \/ ReproductionStep
    \/ Newborns
    \/ Publish
    \/ PublishThrows

Spec == Init /\ [][Next]_vars

-----------------------------------------------------------------------------
(* The calls the user interface makes between two ticks, with the placement of
   resource nodes by hand: stop(), start(), reset(), togglePlacementMode(), the
   click listener of the canvas, and an updateConfig() that changes the grid.
   They are explored from the constructed simulation and from a run in progress. *)

\* the mode togglePlacementMode() moves to: random -> manual -> clustered -> random
nextPlacementMode(mode) ==
    IF mode = "random" THEN "manual" ELSE IF mode = "manual" THEN "clustered" ELSE "random"

\* togglePlacementMode(), lines 126-165
TogglePlacementMode ==
    /\ pc = "idle"
    /\ IF isRunning
       THEN UNCHANGED vars
       ELSE /\ resourcePlacementMode' = nextPlacementMode(resourcePlacementMode)
            /\ manuallyPlacedNodes' = IF resourcePlacementMode = "random"
                                      THEN manuallyPlacedNodes ELSE << >>
            /\ environment' \in NewEnvironments(config.gridWidth, config.gridHeight,
                                                IF resourcePlacementMode' = "random"
                                                THEN config.nodeDensity ELSE 0,
                                                resourcePlacementMode', manuallyPlacedNodes)
            /\ UNCHANGED << config, gridWidth, gridHeight, MUTATION_RATE, organisms, predators,
                            tick_count, isRunning, tickInterval, timers, nextOrganismId, pc,
                            tickLocals, uiMessage, uiStats, hist >>

\* a listener that lets a click through in every placement mode
clickAllowedInAnyMode == ~isRunning

\* a click is let through to the environment: not running, and in manual mode
clickAllowed == ~isRunning /\ resourcePlacementMode = "manual"

\* the grid cells a click on the canvas can name: the canvas keeps the size of
\* the largest grid, so a click can fall outside a grid that is smaller
ClickCells == Cells(MaxGrid, 1)

\* the click listener of the canvas, lines 100-119
CanvasClick ==
    /\ pc = "idle"
    /\ \E c \in ClickCells :
          IF clickAllowed /\ environment # NoEnv /\ toggleNodeSucceeds(environment, c[1], c[2])
          THEN /\ environment' = toggleNode(environment, c[1], c[2])
               /\ manuallyPlacedNodes' = environment'.resourceNodes
               /\ UNCHANGED << config, gridWidth, gridHeight, MUTATION_RATE, organisms,
                               predators, tick_count, isRunning, tickInterval, timers,
                               nextOrganismId, resourcePlacementMode, pc, tickLocals, uiMessage,
                               uiStats, hist >>
          ELSE UNCHANGED vars

\* updateConfig({ gridWidth }), lines 55-75
UpdateGridWidth ==
    /\ pc = "idle"
    /\ \E w \in 1 .. MaxGrid : config' = [config EXCEPT !.gridWidth = w]
    /\ config' # config
    /\ UNCHANGED << gridWidth, gridHeight, MUTATION_RATE, environment, organisms, predators,
                    tick_count, isRunning, tickInterval, timers, nextOrganismId,
                    resourcePlacementMode, manuallyPlacedNodes, pc, tickLocals, uiMessage,
                    uiStats, hist >>

\* the run in progress: two prey and a predator in one cell, 69 ticks old
PlacementRun ==
    [settings |-> CellSettings((3 * Scale) \div 2, 0, 4), prey |-> 2,
     alleles |-> << "L", "L" >>, until |-> "of age", ticks |-> 0]

PlacementInit ==
    /\ Constructed \/ Running(PlacementRun)
    /\ resourcePlacementMode = "random"
    /\ manuallyPlacedNodes = << >>
    /\ pc = "idle"
    /\ idx = 0
    /\ preySpatialLookup = << >>
    /\ huntedPreyIds = {}
    /\ preyPotentialParents = << >>
    /\ preyNewborns = << >>

PlacementNext ==
    \/ Stop
    \/ Start
    \/ Reset
    \/ TogglePlacementMode
    \/ CanvasClick
    \/ UpdateGridWidth

PlacementSpec == PlacementInit /\ [][PlacementNext]_vars

-----------------------------------------------------------------------------
(* The Environment object on its own: its constructor and the calls the
   simulation makes on it, update(), consumeResourceAt() and toggleNode() *)

\* what the other fields of the simulation hold meanwhile
envOther == << config, gridWidth, gridHeight, MUTATION_RATE, organisms, predators, isRunning,
               tickInterval, timers, nextOrganismId, resourcePlacementMode, manuallyPlacedNodes,
               pc, tickLocals, uiMessage, uiStats >>

\* the record of the last call: its number, its name and arguments, what it
\* returned and the environment it was made on
EnvCall(n, name, x, y, amount, returned, before) ==
    [ticks |-> n, call |-> name, x |-> x, y |-> y, amount |-> amount, returned |-> returned,
     before |-> before]

\* lists a caller can hand to the constructor in manual mode: with a cell twice
\* and with a cell outside the grid
ManualLists == { << >>, << << 1, 0 >>, << 1, 0 >>, << MaxGrid, 0 >> >>, << << 1, 0 >>, << 0, 0 >> >> }

\* the environments the constructor builds on the model's grid
ConstructedEnvironments ==
    NewEnvironments(MaxGrid, 1, 5, "random", << >>)
    \cup UNION { NewEnvironments(MaxGrid, 1, 0, "manual", list) : list \in ManualLists }

\* the environment after n updates, the ticks counted from tick
RECURSIVE Replenished(_, _, _)
Replenished(env, tick, n) ==
    IF n = 0 THEN env
    ELSE CHOOSE r \in { Replenished(e, tick + 1, n - 1) : e \in { EnvUpdate(env, tick + 1) } } : r = r

EnvInit ==
    /\ config = ModelSettings(MaxGrid, 1, 4)
    /\ gridWidth = MaxGrid
    /\ gridHeight = 1
    /\ MUTATION_RATE = 5
    /\ organisms = << >>
    /\ predators = << >>
    /\ isRunning = FALSE
    /\ tickInterval = NoTimer
    /\ timers = {}
    /\ nextOrganismId = 0
    /\ resourcePlacementMode = "random"
    /\ manuallyPlacedNodes = << >>
    /\ pc = "idle"
    /\ idx = 0
    /\ preySpatialLookup = << >>
    /\ huntedPreyIds = {}
    /\ preyPotentialParents = << >>
    /\ preyNewborns = << >>
    /\ uiMessage = "none"
    /\ uiStats = calculateStats(0, << >>, << >>)
    /\ \E e \in ConstructedEnvironments, n \in { 0, Replenishments } :
          /\ environment = Replenished(e, 0, n)
          /\ tick_count = n
    /\ hist = EnvCall(0, "none", 0, 0, 0, 0, NoEnv)

\* environment.update(this.tick_count) of a tick (simulation.js, lines 385-386)
EnvTick ==
    /\ hist.ticks < MaxCalls
    /\ tick_count' = tick_count + 1
    /\ environment' = EnvUpdate(environment, tick_count')
    /\ hist' = EnvCall(hist.ticks + 1, "update", 0, 0, 0, 0, environment)
    /\ UNCHANGED envOther

\* the amounts asked of consumeResourceAt: what _feed asks for at most, less,
\* and more than a cell can hold
Amounts == { 1, FOOD_CONSUMPTION_RATE, CELL_MAX_RESOURCES * Scale + 1 }

\* the coordinates of the calls: the cells of the grid and a place outside it
\* on each side
Places == Cells(MaxGrid, 1) \cup { << MaxGrid, 0 >>, << 0 - 1, 0 >>, << 0, 1 >>, << 0, 0 - 1 >> }

\* getCell(x, y): the returned 1 stands for a cell object, 0 for null
EnvGetCell ==
    /\ hist.ticks < MaxCalls
    /\ \E c \in Places :
          hist' = EnvCall(hist.ticks + 1, "getCell", c[1], c[2], 0,
                          IF HasCell(environment, c[1], c[2]) THEN 1 ELSE 0, environment)
    /\ UNCHANGED << environment, tick_count, envOther >>

\* consumeResourceAt(x, y, amount)
EnvConsume ==
    /\ hist.ticks < MaxCalls
    /\ \E c \in Places, amount \in Amounts :
          /\ environment' = consumeResourceAt(environment, c[1], c[2], amount)
          /\ hist' = EnvCall(hist.ticks + 1, "consume", c[1], c[2], amount,
                             Consumed(environment, c[1], c[2], amount), environment)
    /\ UNCHANGED << tick_count, envOther >>

\* toggleNode(x, y)
EnvToggle ==
    /\ hist.ticks < MaxCalls
    /\ \E c \in Places :
          /\ environment' = toggleNode(environment, c[1], c[2])
          /\ hist' = EnvCall(hist.ticks + 1, "toggle", c[1], c[2], 0,
                             IF toggleNodeSucceeds(environment, c[1], c[2]) THEN 1 ELSE 0,
                             environment)
    /\ UNCHANGED << tick_count, envOther >>

EnvNext ==
    \/ EnvTick
    \/ EnvGetCell
    \/ EnvConsume
    \/ EnvToggle

EnvSpec == EnvInit /\ [][EnvNext]_vars

-----------------------------------------------------------------------------
(* A population left without resource input, followed to its end.  The grid is
   one cell that is no resource node and holds no resource; the two prey and the
   predator are what a seeded run has become by the tick before the first prey
   starves.  The interval timer of start() runs tick() for as long as the
   simulation is running, and a tick runs to completion: the tick steps are
   weakly fair.  start() is the user's call and has no fairness.  No prey ever
   becomes a potential parent here (energy only falls), so the reproduction loop
   has no round. *)

\* ticks followed at most (the interval timer itself has no limit)
LiveTicks == 100

LiveRun ==
    [settings |-> [CellSettings(Scale \div 2, 0, 4) EXCEPT !.nodeDensity = 0], prey |-> 2,
     alleles |-> << "H", "H" >>, until |-> "hungry", ticks |-> 0]

LiveInit ==
    /\ Running(LiveRun)
    /\ resourcePlacementMode = "random"
    /\ manuallyPlacedNodes = << >>
    /\ pc = "idle"
    /\ idx = 0
    /\ preySpatialLookup = << >>
    /\ huntedPreyIds = {}
    /\ preyPotentialParents = << >>
    /\ preyNewborns = << >>

\* the callback of setInterval(() => this.tick(), ...) in start()
LiveTimerFire ==
    /\ pc = "idle"
    /\ tick_count < LiveTicks
    /\ isRunning
    /\ tickInterval \in timers
    /\ TickEnter

LiveNext ==
    \/ LiveTimerFire
    \/ PredatorStep
    \/ PredatorsDone
    \/ PreyStep
    \/ Shuffle
    \/ Newborns
    \/ Publish
    \/ Start

LiveFairness ==
    /\ WF_vars(LiveTimerFire)
    /\ WF_vars(PredatorStep)
    /\ WF_vars(PredatorsDone)
    /\ WF_vars(PreyStep)
    /\ WF_vars(Shuffle)
    /\ WF_vars(Newborns)
    /\ WF_vars(Publish)

LiveSpec == LiveInit /\ [][LiveNext]_vars /\ LiveFairness

-----------------------------------------------------------------------------
(* The move of an update, on grids wide enough for a step to be told from a
   wrap.  The states are those reset() leaves under a grid size, stopped, with
   at most one prey and one predator anywhere on the grid; the settings sliders
   call updateConfig() with another grid width while the simulation is not
   running, and start() then recreates the environment at the new size with the
   agents and the module's gridWidth left as they are. *)

\* grid sizes of the moves
MoveWidths == { 1, 2, 5 }
MoveHeights == { 1, 4 }

\* _move calls followed from one state
MaxMoves == 2

MoveSettings(w, h) == [ModelSettings(w, h, 4) EXCEPT !.nodeDensity = 0, !.mutationRate = 0]

MoveInit ==
    /\ \E w \in MoveWidths, h \in MoveHeights :
         /\ config = MoveSettings(w, h)
         /\ gridWidth = w
         /\ gridHeight = h
         /\ environment \in NewEnvironments(w, h, 0, "random", << >>)
         /\ \E prey \in { {} } \cup { { c } : c \in Cells(w, h) },
               preds \in { {} } \cup { { c } : c \in Cells(w, h) } :
              /\ Cardinality(prey) + Cardinality(preds) >= 1
              /\ organisms = [k \in 1 .. Cardinality(prey) |->
                                NewOrganism(0, CHOOSE g \in SeedGenotypes(config) : TRUE,
                                            CHOOSE c \in prey : TRUE)]
              /\ predators = [k \in 1 .. Cardinality(preds) |->
                                NewPredator(1, CHOOSE g \in predatorGenes : TRUE,
                                            CHOOSE c \in preds : TRUE)]
    /\ MUTATION_RATE = 0
    /\ tick_count = 0
    /\ isRunning = FALSE
    /\ tickInterval = NoTimer
    /\ timers = {}
    /\ nextOrganismId = 2
    /\ uiStats = calculateStats(0, organisms, predators)
    /\ uiMessage = "reset"
    /\ hist = EmptyHist(0)
    /\ resourcePlacementMode = "random"
    /\ manuallyPlacedNodes = << >>
    /\ pc = "idle"
    /\ idx = 0
    /\ preySpatialLookup = << >>
    /\ huntedPreyIds = {}
    /\ preyPotentialParents = << >>
    /\ preyNewborns = << >>

\* the grid width slider while the simulation is not running: updateConfig({gridWidth})
MoveResize ==
    /\ pc = "idle"
    /\ ~isRunning
    /\ \E w \in MoveWidths : config' = [config EXCEPT !.gridWidth = w]
    /\ config' # config
    /\ UNCHANGED << gridWidth, gridHeight, MUTATION_RATE, environment, organisms, predators,
                    tick_count, isRunning, tickInterval, timers, nextOrganismId,
                    resourcePlacementMode, manuallyPlacedNodes, pc, tickLocals, uiMessage,
                    uiStats, hist >>

\* this._move(environment, predators) of a prey's update in a running simulation
MovePrey ==
    /\ isRunning
    /\ idx < MaxMoves
    /\ Len(organisms) = 1
    /\ \E rdx \in Steps, rdy \in Steps :
         organisms' = << PreyMove(organisms[1], environment, predators, rdx, rdy) >>
    /\ idx' = idx + 1
    /\ UNCHANGED << config, gridWidth, gridHeight, MUTATION_RATE, environment, predators,
                    tick_count, isRunning, tickInterval, timers, nextOrganismId,
                    resourcePlacementMode, manuallyPlacedNodes, pc, preySpatialLookup,
                    huntedPreyIds, preyPotentialParents, preyNewborns, uiMessage, uiStats, hist >>

\* this._move(environment, allOrganisms) of a predator's update
MovePredator ==
    /\ isRunning
    /\ idx < MaxMoves
    /\ Len(predators) = 1
    /\ \E rdx \in Steps, rdy \in Steps :
         predators' = << PredatorMove(predators[1], environment, organisms, rdx, rdy) >>
    /\ idx' = idx + 1
    /\ UNCHANGED << config, gridWidth, gridHeight, MUTATION_RATE, environment, organisms,
                    tick_count, isRunning, tickInterval, timers, nextOrganismId,
                    resourcePlacementMode, manuallyPlacedNodes, pc, preySpatialLookup,
                    huntedPreyIds, preyPotentialParents, preyNewborns, uiMessage, uiStats, hist >>

MoveNext ==
    \/ MoveResize
    \/ Start
    \/ MovePrey
    \/ MovePredator

MoveSpec == MoveInit /\ [][MoveNext]_vars

-----------------------------------------------------------------------------
(* The genome of the prey on its own: the Organism constructor, getPhenotype()
   and reproduce() with _mutateGenotype().  Two organisms are constructed, then
   one of the two functions is called on them. *)

\* what the constructor's getRandom(-variation, variation) adds to the alleles of
\* metabolism_efficiency and feeding_efficiency here: the two ends of its range
GeneVariations == { 0 - INITIAL_GENE_VARIATION \div 2, INITIAL_GENE_VARIATION \div 2 - 1 }

\* calls of getPhenotype or reproduce followed from one pair of organisms
MaxGeneCalls == 1

\* averages next to the ends of the interval the two clamped genes are kept in,
\* so that the constructor and the mutation both run into the clamp
GeneSettings(rate) ==
    [ModelSettings(1, 1, 4) EXCEPT !.avgMetabolism = AlleleMin + 2, !.avgFeeding = AlleleMax - 2,
                                   !.mutationRate = rate]

\* the initialGenes objects of the constructor calls: the one of
\* _createInitialPopulation and one with the two clamped genes only
GeneTraitSets == { PreyTraits, ClampedTraits }

\* a name getPhenotype is asked for that no prey genome holds
AbsentTrait == "detection_range"

\* what the other fields of the simulation hold meanwhile
geneOther == << config, gridWidth, gridHeight, MUTATION_RATE, environment, predators, tick_count,
                isRunning, tickInterval, timers, resourcePlacementMode, manuallyPlacedNodes,
                pc, tickLocals, uiMessage, uiStats >>

\* the record of the last call: its number and name, the genes of the organism it
\* was called on and of its partner, the gene asked for, the genotype before the
\* mutation and what the call returned
GeneCall(n, name, a, b, trait, inherited, returned) ==
    [ticks |-> n, call |-> name, a |-> a, b |-> b, trait |-> trait, inherited |-> inherited,
     returned |-> returned]

\* the seeded alleles vary where the mutation is off and sit at the average where
\* it is on
GeneInit ==
    /\ MUTATION_RATE \in { 0, 5 }
    /\ config = GeneSettings(MUTATION_RATE)
    /\ gridWidth = 1
    /\ gridHeight = 1
    /\ environment \in NewEnvironments(1, 1, 0, "random", << >>)
    /\ organisms = << >>
    /\ predators = << >>
    /\ tick_count = 0
    /\ isRunning = FALSE
    /\ tickInterval = NoTimer
    /\ timers = {}
    /\ nextOrganismId = 0
    /\ resourcePlacementMode = "random"
    /\ manuallyPlacedNodes = << >>
    /\ pc = "idle"
    /\ idx = 0
    /\ preySpatialLookup = << >>
    /\ huntedPreyIds = {}
    /\ preyPotentialParents = << >>
    /\ preyNewborns = << >>
    /\ uiMessage = "none"
    /\ uiStats = calculateStats(0, << >>, << >>)
    /\ hist = GeneCall(0, "none", << >>, << >>, "none", << >>, << >>)

\* new Organism(this.nextOrganismId++, initialGenes, location) (organism.js, lines 11-42)
GeneSeed ==
    /\ Len(organisms) < 2
    /\ \E traits \in GeneTraitSets :
       \E genes \in SeedGenotypesWith(config, traits,
                                      IF MUTATION_RATE = 0 THEN GeneVariations ELSE SeedVariations) :
          organisms' = Append(organisms, NewOrganism(nextOrganismId, genes, << 0, 0 >>))
    /\ nextOrganismId' = nextOrganismId + 1
    /\ UNCHANGED << hist, geneOther >>

\* organism.getPhenotype(geneName)
GenePhenotype ==
    /\ hist.ticks < MaxGeneCalls
    /\ \E k \in 1 .. Len(organisms), trait \in PreyTraits \cup { AbsentTrait } :
          hist' = GeneCall(hist.ticks + 1, "getPhenotype", organisms[k].genes, << >>, trait, << >>,
                           getPhenotype(organisms[k].genes, trait))
    /\ UNCHANGED << organisms, nextOrganismId, geneOther >>

\* offspring = parentA.reproduce(partner); offspring.id = this.nextOrganismId++
GeneReproduce ==
    /\ hist.ticks < MaxGeneCalls
    /\ Len(organisms) = 2
    /\ \E inherited \in InheritedGenotypes(organisms[1].genes, organisms[2].genes) :
       \E final \in MutatedGenotypes(inherited, MUTATION_RATE, MaxMutations, AlleleSlots(inherited)) :
       \E offspring \in { o \in reproduce(organisms[1], organisms[2]) : o.genes = final } :
          /\ organisms' = Append(organisms, [offspring EXCEPT !.id = nextOrganismId])
          /\ hist' = GeneCall(hist.ticks + 1, "reproduce", organisms[1].genes, organisms[2].genes,
                              "none", inherited, final)
    /\ nextOrganismId' = nextOrganismId + 1
    /\ UNCHANGED geneOther

GeneNext ==
    \/ GeneSeed
    \/ GenePhenotype
    \/ GeneReproduce

GeneSpec == GeneInit /\ [][GeneNext]_vars

-----------------------------------------------------------------------------
(* The reproduction phase of a tick on its own: the prey loop is over, the prey
   stand anywhere on the grid, each fit to mate or not, and the fit ones are the
   potential parents, in any order the shuffle can leave them in. *)

\* the grids of the search: one cell, a row narrower than the search is wide, and
\* a grid as wide and high as the search
MateGrids == { << 1, 1 >>, << 3, 1 >>, << 2 * MATING_SEARCH_RADIUS + 1, 2 * MATING_SEARCH_RADIUS + 1 >> }

\* what a prey is like: fit to mate, a tick too young, short of energy
MateKinds == { "fit", "young", "weak" }

\* the values of maxPopulation: reached after one birth, after one more, never
MateCaps == { 4, 5, 10 }

\* the number of prey: three, and four as well on the grid of one cell
MateCounts(g) == IF g = << 1, 1 >> THEN { 3, 4 } ELSE { 3 }

MateSettings(w, h, cap) ==
    [ModelSettings(w, h, cap) EXCEPT !.nodeDensity = 0, !.mutationRate = 0]

\* a prey of the reproduction phase
MatePrey(id, kind, loc) ==
    [NewOrganism(id, CHOOSE g \in SeedGenotypes(MateSettings(1, 1, 4)) :
                       g["temperature_tolerance"] = << "L", "L" >>, loc)
       EXCEPT !.age = IF kind = "young" THEN REPRODUCTION_AGE - 1 ELSE REPRODUCTION_AGE,
              !.energy = IF kind = "weak" THEN REPRODUCTION_ENERGY_THRESHOLD * Scale - 1
                         ELSE PREY_MAX_ENERGY]

MateInit ==
    /\ \E g \in MateGrids, cap \in MateCaps :
         /\ config = MateSettings(g[1], g[2], cap)
         /\ gridWidth = g[1]
         /\ gridHeight = g[2]
         /\ environment = CHOOSE e \in NewEnvironments(g[1], g[2], 0, "random", << >>) : TRUE
         /\ \E n \in MateCounts(g) :
            \E places \in [2 .. n -> Cells(g[1], g[2])], kinds \in [2 .. n -> MateKinds] :
              organisms = [k \in 1 .. n |->
                             IF k = 1 THEN MatePrey(0, "fit", << 0, 0 >>)
                             ELSE MatePrey(k - 1, kinds[k], places[k])]
    /\ predators = << >>
    /\ MUTATION_RATE = 0
    /\ tick_count = REPRODUCTION_AGE
    /\ isRunning = TRUE
    /\ tickInterval = 1
    /\ timers = { 1 }
    /\ nextOrganismId = Len(organisms)
    /\ resourcePlacementMode = "random"
    /\ manuallyPlacedNodes = << >>
    /\ pc = "repro"
    /\ idx = 1
    /\ preySpatialLookup = buildSpatialLookup(organisms)
    /\ huntedPreyIds = {}
    /\ preyPotentialParents \in Perms({ organisms[k].id : k \in { j \in 1 .. Len(organisms) :
                                                                   IsPotentialParent(organisms[j]) } })
    /\ preyNewborns = << >>
    /\ uiMessage = "reset"
    /\ uiStats = calculateStats(tick_count - 1, organisms, predators)
    /\ hist = [EmptyHist(1) EXCEPT !.outcome = "running", !.start = organisms]

MateNext ==
    \/ ReproductionStep
    \/ Newborns
    \/ Publish

MateSpec == MateInit /\ [][MateNext]_vars

-----------------------------------------------------------------------------
(* A tick with mating on a grid wider than the mate search reaches.  Two prey
   old and strong enough to mate stand anywhere on the grid, no predator; the
   tick runs from its entry, where the spatial lookup is built, through the prey
   loop, where the prey move, to the reproduction loop that searches the
   lookup. *)

MatingTickGrids == { << 8, 1 >>, << 1, 8 >> }

MatingTickInit ==
    /\ \E g \in MatingTickGrids :
         /\ config = MateSettings(g[1], g[2], 4)
         /\ gridWidth = g[1]
         /\ gridHeight = g[2]
         /\ environment = CHOOSE e \in NewEnvironments(g[1], g[2], 0, "random", << >>) : TRUE
         /\ \E c1 \in Cells(g[1], g[2]), c2 \in Cells(g[1], g[2]) :
              organisms = << MatePrey(0, "fit", c1), MatePrey(1, "fit", c2) >>
    /\ predators = << >>
    /\ MUTATION_RATE = 0
    /\ tick_count = REPRODUCTION_AGE
    /\ isRunning = TRUE
    /\ tickInterval = 1
    /\ timers = { 1 }
    /\ nextOrganismId = 2
    /\ resourcePlacementMode = "random"
    /\ manuallyPlacedNodes = << >>
    /\ pc = "idle"
    /\ idx = 0
    /\ preySpatialLookup = << >>
    /\ huntedPreyIds = {}
    /\ preyPotentialParents = << >>
    /\ preyNewborns = << >>
    /\ uiMessage = "reset"
    /\ uiStats = calculateStats(tick_count, organisms, predators)
    /\ hist = EmptyHist(0)

MatingTickNext ==
    \/ TimerFire
    \/ PredatorsDone
    \/ PreyStep
    \/ Shuffle
    \/ ReproductionStep
    \/ Newborns
    \/ Publish

MatingTickSpec == MatingTickInit /\ [][MatingTickNext]_vars

-----------------------------------------------------------------------------
(* Stopping and starting a run.  The states and the ticks are those of the
   tick model; stop() notes the run it stops, and every call made on the
   stopped simulation tells in hist.outcome what has happened since: "stopped",
   "changed" by a grid width slider (the sliders are disabled while the
   simulation runs), "resumed" by a start() that follows the stop() at once,
   "started" by any other start(). *)

\* stop()
ResumeStop ==
    /\ pc = "idle"
    /\ StopEffect
    /\ hist' = IF isRunning
               THEN [hist EXCEPT !.outcome = "stopped",
                                 !.before = [tick_count |-> tick_count, environment |-> environment,
                                             organisms |-> organisms, predators |-> predators]]
               ELSE hist
    /\ UNCHANGED << simVars, pc, tickLocals, uiMessage, uiStats >>

\* start()
ResumeStart ==
    /\ StartEffect
    /\ hist' = IF isRunning THEN hist
               ELSE [hist EXCEPT !.outcome = IF @ = "stopped" THEN "resumed" ELSE "started"]

\* updateConfig({ gridWidth }) by the slider of a stopped simulation
ResumeResize ==
    /\ pc = "idle"
    /\ ~isRunning
    /\ \E w \in 1 .. MaxGrid : config' = [config EXCEPT !.gridWidth = w]
    /\ config' # config
    /\ hist' = [hist EXCEPT !.outcome = "changed"]
    /\ UNCHANGED << gridWidth, gridHeight, MUTATION_RATE, environment, organisms, predators,
                    tick_count, isRunning, tickInterval, timers, nextOrganismId,
                    resourcePlacementMode, manuallyPlacedNodes, pc, tickLocals, uiMessage,
                    uiStats >>

ResumeNext ==
    \/ ResumeStop
    \/ ResumeStart
    \/ ResumeResize
    \/ TimerFire
    \/ PredatorStep
    \/ PredatorsDone
    \/ PreyStep
    \/ Shuffle
    \/ ReproductionStep
    \/ Newborns
    \/ Publish

ResumeSpec == Init /\ [][ResumeNext]_vars

-----------------------------------------------------------------------------
(* Properties *)

\* the tick in progress has come to its end without an error
EndOfTick == pc = "idle" /\ hist.outcome = "completed"

\* the reproduction phase is over, the tick may or may not have returned
AfterReproduction == pc = "publish" \/ EndOfTick

ParentsOf(matings) ==
    { matings[k].a : k \in 1 .. Len(matings) } \cup { matings[k].b : k \in 1 .. Len(matings) }

\* age, energy and location of every agent of a collection, in array order
Observed(list) ==
    [k \in 1 .. Len(list) |->
       [id |-> list[k].id, age |-> list[k].age, energy |-> list[k].energy,
        x |-> list[k].x, y |-> list[k].y]]

Resources(env) == [c \in DOMAIN env.grid |-> env.grid[c].resourceAmount]

\* C1: immediately after the reproduction phase of a tick the number of agents,
\* prey plus predators, is at most the configured maxPopulation.
C1_PopulationCap ==
    pc = "publish" => Len(organisms) + Len(predators) <= config.maxPopulation

\* C2: within a tick no agent is a parent in more than one mating: during the
\* tick an agent's flag is set exactly when it has been a parent in one of the
\* tick's matings, and no two matings of a tick share a parent.
C2_ReproductionExclusivity ==
    pc # "idle" =>
      /\ \A k \in 1 .. Len(organisms) :
            organisms[k].hasReproducedThisTick <=> organisms[k].id \in ParentsOf(hist.matings)
      /\ \A k \in 1 .. Len(predators) : ~predators[k].hasReproducedThisTick
      /\ \A i \in 1 .. Len(hist.matings) :
            /\ hist.matings[i].a # hist.matings[i].b
            /\ \A j \in 1 .. Len(hist.matings) :
                  i # j => { hist.matings[i].a, hist.matings[i].b }
                              \cap { hist.matings[j].a, hist.matings[j].b } = {}

\* a mating took place, a third eligible prey sought a partner after it, and the
\* cap would have allowed another birth
C2_Witness ==
    /\ pc = "publish"
    /\ Len(hist.matings) = 1
    /\ Len(preyPotentialParents) = 3
    /\ Len(organisms) + Len(predators) < config.maxPopulation

\* C3: whenever a predator kills a prey, the prey is in the predator's cell at
\* the moment of the hunt roll.
C3_KillsCoLocated ==
    \A k \in 1 .. Len(hist.kills) :
      hist.kills[k].px = hist.kills[k].qx /\ hist.kills[k].py = hist.kills[k].qy

\* C4: a prey killed in a tick is removed in that tick without its own update:
\* age, energy and location at removal are those before the predator phase, it
\* consumes no resource, and it is gone once the prey phase is over.
C4_HuntedPreyFrame ==
    /\ \A k \in 1 .. Len(hist.removed) :
          LET r == hist.removed[k].org
              s == ById(hist.start, r.id)
          IN /\ r.age = s.age /\ r.energy = s.energy /\ r.x = s.x /\ r.y = s.y
             /\ hist.removed[k].consumed = 0
             /\ r.id \notin SeqToSet(hist.updated)
    /\ (pc \in { "repro", "publish" } \/ EndOfTick) =>
          \A k \in 1 .. Len(hist.kills) :
            /\ ~HasId(organisms, hist.kills[k].prey)
            /\ \E j \in 1 .. Len(hist.removed) : hist.removed[j].org.id = hist.kills[k].prey

\* a hunted prey has been removed and the tick has gone on
C4_Witness == pc = "publish" /\ Len(hist.removed) >= 1 /\ Len(hist.kills) >= 1

\* C5 as stated: a prey whose energy is 0 or less right after the metabolize step,
\* whatever its cell holds, is not in the collection at the end of the tick.
C5_StarvedAfterMetabolize ==
    AfterReproduction => \A id \in hist.starved : ~HasId(organisms, id)

\* C5 amended: a prey whose energy is 0 or less right after the feed step (so one
\* that metabolized to 0 or less in a cell that holds no resource) is not in the
\* collection at the end of the tick.
C5_StarvedAfterFeed ==
    AfterReproduction => \A id \in hist.famished : ~HasId(organisms, id)

\* a prey came out of the feed step with no energy and the tick went on
C5_Witness == pc = "publish" /\ hist.famished # {}

\* C6: after reset, after the reproduction phase and after each completed tick
\* every agent's energy is within 0 and the maximum of its kind.
C6_EnergyBounds ==
    (pc \in { "repro", "publish" } \/ (pc = "idle" /\ hist.outcome # "failed")) =>
      /\ \A k \in 1 .. Len(organisms) :
            organisms[k].energy >= 0 /\ organisms[k].energy <= PREY_MAX_ENERGY
      /\ \A k \in 1 .. Len(predators) :
            predators[k].energy >= 0 /\ predators[k].energy <= PREDATOR_MAX_ENERGY

\* both parents right after a mating
C6_Witness ==
    /\ pc = "publish"
    /\ Len(hist.matings) >= 1
    /\ \A id \in ParentsOf(hist.matings) : HasId(organisms, id)

\* C7: the step that ends a tick without error leaves the simulation Idle (not
\* running, no timer) when no prey remain, and Running when a prey remains.
C7_ExtinctionStops ==
    [][ (pc = "publish" /\ hist'.outcome = "completed") =>
          IF Len(organisms') = 0
          THEN ~isRunning' /\ tickInterval' = NoTimer /\ timers' = {}
          ELSE isRunning' /\ tickInterval' \in timers' ]_vars

\* a tick ended with the prey extinct and a predator alive
C7_Witness ==
    EndOfTick /\ Len(organisms) = 0 /\ Len(predators) > 0 /\ uiMessage = "extinction"

C9_NoPartialMutation ==
    (pc = "idle" /\ hist.outcome = "failed") =>
      /\ tick_count = hist.before.tick_count
      /\ Resources(environment) = Resources(hist.before.environment)
      /\ Observed(organisms) = Observed(hist.before.organisms)
      /\ Observed(predators) = Observed(hist.before.predators)

\* C10: while the simulation is stopped no step begins a tick or changes the tick
\* counter, the collections or a cell, other than reset() and start(); and a step
\* that stops the running simulation between ticks, other than reset(), changes
\* the running flag and the timer only.
C10_StoppedMeansNoTick ==
    [][ /\ (pc = "idle" /\ ~isRunning) =>
             /\ pc' = "idle" /\ hist'.ticks = hist.ticks
             /\ (Reset \/ Start \/ UNCHANGED << tick_count, organisms, predators, environment >>)
        /\ (pc = "idle" /\ pc' = "idle" /\ isRunning /\ ~isRunning' /\ ~Reset) =>
             /\ UNCHANGED << simVars, uiMessage, uiStats, hist >>
             /\ tickInterval' = NoTimer ]_vars

\* stop() was called after a completed tick that left prey, with ticks to be asked for
C10_Witness ==
    /\ pc = "idle" /\ ~isRunning /\ hist.outcome = "completed"
    /\ Len(organisms) > 0 /\ hist.ticks < MaxTicks

\* the two potential parents of the tick, when there are exactly two and they
\* share a cell
PairInOneCell ==
    /\ Len(preyPotentialParents) = 2
    /\ \A k \in 1 .. 2 : HasId(organisms, preyPotentialParents[k])
    /\ ById(organisms, preyPotentialParents[1]).x = ById(organisms, preyPotentialParents[2]).x
    /\ ById(organisms, preyPotentialParents[1]).y = ById(organisms, preyPotentialParents[2]).y

PredatorsAfter(after) ==
    IF after.alive THEN [predators EXCEPT ![idx] = after] ELSE RemoveAt(predators, idx)

\* C14: in one tick each predator kills at most one prey and each prey is killed
\* by at most one predator; a predator update whose hunt rolls all fail leaves
\* every prey as it was and the predator with what age, metabolism and movement
\* alone give it, and a successful roll changes nothing but the alive flag of the
\* prey killed and the energy the predator gains from it.
C14_HuntEffects ==
    [][ (pc = "pred" /\ idx >= 1 /\ idx' = idx - 1) =>
          /\ Len(hist'.kills) <= Len(hist.kills) + 1
          /\ \A i, j \in 1 .. Len(hist'.kills) :
                i # j => /\ hist'.kills[i].predator # hist'.kills[j].predator
                         /\ hist'.kills[i].prey # hist'.kills[j].prey
          /\ \E rdx \in Steps, rdy \in Steps :
                LET moved == PredatorMove(PredatorMetabolize([predators[idx] EXCEPT !.age = @ + 1],
                                                             environment),
                                          environment, organisms, rdx, rdy)
                IN IF Len(hist'.kills) = Len(hist.kills)
                   THEN /\ organisms' = organisms
                        /\ predators' = PredatorsAfter(PredatorCheckDeath(moved))
                   ELSE LET kill == hist'.kills[Len(hist'.kills)]
                            k == IndexOfId(organisms, kill.prey)
                        IN /\ kill.predator = predators[idx].id
                           /\ organisms[k].alive
                           /\ organisms' = [organisms EXCEPT ![k].alive = FALSE]
                           /\ predators' = PredatorsAfter(PredatorCheckDeath(
                                                AfterKill(moved, organisms[k].energy))) ]_vars

\* the predator phase of a tick with two predators is over: one has killed a prey,
\* the other has failed its rolls with a living prey in reach
C14_Witness ==
    /\ pc = "prey" /\ idx = Len(organisms)
    /\ Len(hist.kills) = 1
    /\ Len(hist.before.predators) = 2
    /\ \E k \in 1 .. Len(organisms) : organisms[k].alive

\* the agents of the list that entered the tick at the age limit given
AtAgeLimit(list, limit) == { list[k].id : k \in { j \in 1 .. Len(list) : list[j].age >= limit } }

\* C15: between ticks, and from the end of the prey loop of a tick on, every agent
\* in the prey and predator collections is alive and no older than the limit of
\* its species; the prey hunted in the tick, the prey left without energy after
\* feeding and the agents that entered the tick at their age limit are no longer
\* in their collection when the tick ends.
C15_NoDeadEntries ==
    /\ pc \in { "idle", "repro", "publish" } =>
          /\ \A k \in 1 .. Len(organisms) :
                organisms[k].alive /\ organisms[k].age <= MAX_LIFESPAN
          /\ \A k \in 1 .. Len(predators) :
                predators[k].alive /\ predators[k].age <= PREDATOR_MAX_AGE
    /\ (pc \in { "repro", "publish" } \/ (pc = "idle" /\ hist.outcome # "none")) =>
          /\ \A k \in 1 .. Len(hist.kills) : ~HasId(organisms, hist.kills[k].prey)
          /\ \A id \in hist.famished : ~HasId(organisms, id)
          /\ \A id \in AtAgeLimit(hist.before.organisms, MAX_LIFESPAN) : ~HasId(organisms, id)
          /\ \A id \in AtAgeLimit(hist.before.predators, PREDATOR_MAX_AGE) :
                ~HasId(predators, id)

\* a tick has ended in which a prey with energy to spare died of old age
C15_Witness ==
    /\ EndOfTick
    /\ \E k \in 1 .. Len(hist.before.organisms) :
          /\ hist.before.organisms[k].age = MAX_LIFESPAN
          /\ hist.before.organisms[k].id \notin hist.famished
          /\ hist.before.organisms[k].id \notin { hist.kills[j].prey : j \in 1 .. Len(hist.kills) }
          /\ ~HasId(organisms, hist.before.organisms[k].id)

\* the newborns of the tick that are not in the prey collection yet
Pending == IF pc = "repro" THEN preyNewborns ELSE << >>

\* no two agents of the collections and of the pending newborns share an id, and
\* every id in use is below the counter
IdsDistinctAndIssued ==
    /\ Cardinality(SeqToSet(IdsOf(organisms)) \cup SeqToSet(IdsOf(predators))
                     \cup SeqToSet(IdsOf(Pending)))
         = Len(organisms) + Len(predators) + Len(Pending)
    /\ \A id \in SeqToSet(IdsOf(organisms)) \cup SeqToSet(IdsOf(predators))
                     \cup SeqToSet(IdsOf(Pending)) :
          id >= 0 /\ id < nextOrganismId

\* C16: in every state no two agents share an id and every id in use is smaller
\* than nextOrganismId; nextOrganismId never decreases in a step other than a
\* reset, and an offspring gets the value of the counter, which no agent has held
\* since the last reset.
C16_IdsNeverReused ==
    /\ []IdsDistinctAndIssued
    /\ [][ /\ Reset \/ nextOrganismId' >= nextOrganismId
           /\ Len(preyNewborns') > Len(preyNewborns) =>
                /\ preyNewborns'[Len(preyNewborns')].id = nextOrganismId
                /\ nextOrganismId' = nextOrganismId + 1 ]_vars

\* a tick has ended that removed an agent and added an offspring
C16_Witness ==
    /\ EndOfTick
    /\ Len(hist.matings) >= 1
    /\ \E id \in SeqToSet(IdsOf(hist.before.organisms)) \cup SeqToSet(IdsOf(hist.before.predators)) :
          id \notin SeqToSet(IdsOf(organisms)) \cup SeqToSet(IdsOf(predators))
    /\ \E id \in SeqToSet(IdsOf(organisms)) : id \notin SeqToSet(IdsOf(hist.before.organisms))

\* the resource amount of a cell
Balance(env, c) == env.grid[c].resourceAmount

\* C17: a call of consumeResourceAt on a cell of the grid returns no more than the
\* amount asked for and no more than the cell held, lowers the cell by exactly
\* what it returns, never below zero, and changes nothing else; on a place
\* outside the grid it returns 0 and changes nothing.
C17_ConsumeWithinBalance ==
    [][ hist'.call = "consume" =>
          LET c == << hist'.x, hist'.y >>
          IN IF HasCell(environment, c[1], c[2])
             THEN /\ hist'.returned <= hist'.amount
                  /\ hist'.returned <= Balance(environment, c)
                  /\ Balance(environment', c) = Balance(environment, c) - hist'.returned
                  /\ Balance(environment', c) >= 0
                  /\ environment' = [environment EXCEPT !.grid[c].resourceAmount =
                                                            Balance(environment', c)]
             ELSE hist'.returned = 0 /\ environment' = environment ]_vars

\* a call that asked for more than the cell held has emptied it
C17_Witness ==
    /\ hist.call = "consume"
    /\ HasCell(hist.before, hist.x, hist.y)
    /\ Balance(hist.before, << hist.x, hist.y >>) > 0
    /\ hist.amount > Balance(hist.before, << hist.x, hist.y >>)
    /\ hist.returned = Balance(hist.before, << hist.x, hist.y >>)
    /\ Balance(environment, << hist.x, hist.y >>) = 0

\* C18: in every state each cell's resource amount is within 0 and
\* CELL_MAX_RESOURCES; an update adds NODE_REPLENISH_RATE to the cells of the
\* node list, up to the maximum, and leaves the amount of every other cell as it
\* was, which is also what the per-cell update by the isNode flag gives.
C18_ResourceBounds ==
    /\ [](\A c \in DOMAIN environment.grid :
            Balance(environment, c) >= 0
            /\ Balance(environment, c) <= CELL_MAX_RESOURCES * Scale)
    /\ [][ hist'.call = "update" =>
             /\ \A c \in DOMAIN environment.grid :
                   Balance(environment', c)
                     = IF environment.grid[c].isNode
                       THEN Min2(Balance(environment, c) + NODE_REPLENISH_RATE,
                                 CELL_MAX_RESOURCES * Scale)
                       ELSE Balance(environment, c)
             /\ environment'.grid = ReplenishedByFlag(environment) ]_vars

\* an update has stopped a node at the maximum and left a cell that is no node
\* with what it had
C18_Witness ==
    /\ hist.call = "update"
    /\ \E c \in DOMAIN environment.grid :
          /\ environment.grid[c].isNode
          /\ Balance(hist.before, c) + NODE_REPLENISH_RATE > CELL_MAX_RESOURCES * Scale
          /\ Balance(environment, c) = CELL_MAX_RESOURCES * Scale
    /\ \E c \in DOMAIN environment.grid :
          /\ ~environment.grid[c].isNode
          /\ Balance(environment, c) > 0
          /\ Balance(environment, c) = Balance(hist.before, c)

\* C19: in every state the node list holds the coordinates of the cells whose
\* isNode flag is set, each once; toggleNode on a cell of the grid flips the
\* flag, sets the amount to the baseline of the new status and leaves the other
\* cells alone, on a place outside the grid it changes nothing; a second toggle
\* of the same cell restores the flag and the list membership.
C19_NodeListMatchesFlags ==
    /\ [](/\ SeqToSet(environment.resourceNodes)
               = { c \in DOMAIN environment.grid : environment.grid[c].isNode }
          /\ Cardinality(SeqToSet(environment.resourceNodes)) = Len(environment.resourceNodes))
    /\ [][ hist'.call = "toggle" =>
             LET c == << hist'.x, hist'.y >>
             IN IF InGrid(environment, c[1], c[2])
                THEN /\ hist'.returned = 1
                     /\ environment'.grid[c].isNode = ~environment.grid[c].isNode
                     /\ Balance(environment', c)
                          = IF environment'.grid[c].isNode THEN NODE_INITIAL_RESOURCES * Scale
                            ELSE NON_NODE_INITIAL_RESOURCES * Scale
                     /\ \A d \in DOMAIN environment.grid \ { c } :
                           environment'.grid[d] = environment.grid[d]
                     /\ (hist.call = "toggle" /\ << hist.x, hist.y >> = c) =>
                           /\ environment'.grid[c].isNode = hist.before.grid[c].isNode
                           /\ c \in SeqToSet(environment'.resourceNodes)
                                <=> c \in SeqToSet(hist.before.resourceNodes)
                ELSE hist'.returned = 0 /\ environment' = environment ]_vars

\* a toggle has made the first cell a node again: it now stands behind the
\* second cell in the list
C19_Witness ==
    /\ hist.call = "toggle"
    /\ << hist.x, hist.y >> = << 0, 0 >>
    /\ environment.resourceNodes = << << 1, 0 >>, << 0, 0 >> >>
    /\ Balance(environment, << 0, 0 >>) = NODE_INITIAL_RESOURCES * Scale

\* the cells of an environment whose isNode flag is set
NodeCells(env) == { c \in DOMAIN env.grid : env.grid[c].isNode }

\* an environment as the constructor leaves it: the size of the settings, the
\* base temperature, every cell at the baseline of its status, the node list in
\* step with the flags
FreshEnvironment(env, settings) ==
    /\ env.width = settings.gridWidth /\ env.height = settings.gridHeight
    /\ DOMAIN env.grid = Cells(settings.gridWidth, settings.gridHeight)
    /\ env.temperature = TEMP_BASE * Scale
    /\ \A c \in DOMAIN env.grid :
          Balance(env, c) = IF env.grid[c].isNode THEN NODE_INITIAL_RESOURCES * Scale
                            ELSE NON_NODE_INITIAL_RESOURCES * Scale
    /\ SeqToSet(env.resourceNodes) = NodeCells(env)

\* C11: reset(), from Idle or from Running, leaves the simulation Idle with
\* tick_count 0, the collections holding a newly seeded population (ids from 0,
\* age 0, alive, the seeded number of each kind) and a newly built environment
\* of the configured size; in manual mode the new environment has the node cells
\* of the environment before the reset that lie inside the new grid, in the
\* other modes the stored manual node list is emptied; the mode stays.
C11_ResetReseeds ==
    [][ (config' = config /\ resourcePlacementMode' = resourcePlacementMode /\ Reset) =>
          /\ ~isRunning' /\ tickInterval' = NoTimer /\ tickInterval \notin timers'
          /\ tick_count' = 0
          /\ Len(organisms') = initialPopNum(config)
          /\ Len(predators') = initialPredatorNum(config)
          /\ \A k \in 1 .. Len(organisms') :
                /\ organisms'[k].id = k - 1 /\ organisms'[k].age = 0 /\ organisms'[k].alive
                /\ organisms'[k].energy = INITIAL_ENERGY * Scale
          /\ \A k \in 1 .. Len(predators') :
                /\ predators'[k].id = Len(organisms') + k - 1
                /\ predators'[k].age = 0 /\ predators'[k].alive
          /\ nextOrganismId' = Len(organisms') + Len(predators')
          /\ FreshEnvironment(environment', config)
          /\ IF resourcePlacementMode = "manual" /\ environment # NoEnv
             THEN /\ NodeCells(environment')
                       = NodeCells(environment) \cap Cells(config.gridWidth, config.gridHeight)
                  /\ manuallyPlacedNodes' = environment.resourceNodes
             ELSE manuallyPlacedNodes' = << >> ]_vars

\* a reset in manual mode on a grid made narrower: of the two nodes placed by
\* hand the one inside the new grid is a node again
C11_Witness ==
    /\ ~isRunning /\ tick_count = 0 /\ uiMessage = "reset"
    /\ resourcePlacementMode = "manual"
    /\ SeqToSet(manuallyPlacedNodes) = { << 0, 0 >>, << 1, 0 >> }
    /\ environment # NoEnv
    /\ environment.width = 1
    /\ NodeCells(environment) = { << 0, 0 >> }
    /\ \A k \in 1 .. Len(organisms) : organisms[k].age = 0

\* C20: a click on the canvas changes nothing while the simulation is running
\* or the placement mode is not manual; a click that changes the environment is
\* made in manual mode while not running, toggles one cell of the grid and
\* stores the node list of the environment as the manual node list.
C20_ClickOnlyInManualIdle ==
    [][ CanvasClick =>
          /\ (isRunning \/ resourcePlacementMode # "manual") =>
                UNCHANGED << environment, manuallyPlacedNodes >>
          /\ (environment' # environment \/ manuallyPlacedNodes' # manuallyPlacedNodes) =>
                /\ ~isRunning /\ resourcePlacementMode = "manual"
                /\ \E c \in DOMAIN environment.grid :
                      /\ environment'.grid[c].isNode = ~environment.grid[c].isNode
                      /\ \A d \in DOMAIN environment.grid \ { c } :
                            environment'.grid[d] = environment.grid[d]
                /\ manuallyPlacedNodes' = environment'.resourceNodes ]_vars

\* two clicks in manual mode have made both cells nodes, the second cell first
C20_Witness ==
    /\ ~isRunning
    /\ resourcePlacementMode = "manual"
    /\ environment # NoEnv
    /\ environment.resourceNodes = << << 1, 0 >>, << 0, 0 >> >>
    /\ manuallyPlacedNodes = environment.resourceNodes


\* C12: in a population with no resource node, no resource left in any cell and
\* no agent eligible to reproduce, as long as ticks keep being scheduled every
\* agent, prey and predator alike, eventually has died and been removed: either
\* the simulation ends up stopped for good, or both collections become empty.
NoResourceInput ==
    \A c \in DOMAIN environment.grid :
        ~environment.grid[c].isNode /\ environment.grid[c].resourceAmount = 0

AllRemoved == Len(organisms) = 0 /\ Len(predators) = 0

C12_StarvedPopulationDiesOut ==
    ([]<>isRunning) => <>(NoResourceInput /\ AllRemoved)

\* both collections are empty after ticks that started with agents of both kinds
C12_Witness ==
    /\ NoResourceInput
    /\ AllRemoved
    /\ pc = "idle"
    /\ hist.outcome = "completed"
    /\ Len(hist.before.predators) > 0
    /\ tick_count > Reached(LiveRun).tick_count

TorusMod(a, n) == CHOOSE r \in 0 .. (n - 1) : \E q \in (0 - 2) .. (a + 2) : a = q * n + r

\* the agent has gone from `from' to `to' by the step d on a torus of w by h cells
LandsOn(from, to, d, w, h) ==
    /\ to.x = TorusMod(from.x + d[1], w)
    /\ to.y = TorusMod(from.y + d[2], h)

\* the steps _move can decide on for the agents of the state
StepsOfPrey == { PreyStepChoice(organisms[1], predators, rdx, rdy) : rdx \in Steps, rdy \in Steps }
StepsOfPredator ==
    { PredatorStepChoice(predators[1], organisms, rdx, rdy) : rdx \in Steps, rdy \in Steps }

\* the moves wrap on the module's gridWidth and gridHeight, the size of the last
\* reset() (a predator whose cell the environment does not have makes no move)
MovesWrapOnModuleGrid ==
    [][ /\ MovePrey => \E d \in StepsOfPrey :
                         LandsOn(organisms[1], organisms'[1], d, gridWidth, gridHeight)
        /\ (MovePredator /\ HasCell(environment, predators[1].x, predators[1].y)) =>
              \E d \in StepsOfPredator :
                 LandsOn(predators[1], predators'[1], d, gridWidth, gridHeight) ]_vars

\* C22: every move of an agent that is on the grid, by the step (dx, dy) its
\* _move decides on, lands on ((x + dx) mod width, (y + dy) mod height) of the
\* grid the simulation runs on, the environment.
C22_ToroidalWrap ==
    [][ /\ (MovePrey /\ HasCell(environment, organisms[1].x, organisms[1].y)) =>
              \E d \in StepsOfPrey :
                 LandsOn(organisms[1], organisms'[1], d, environment.width, environment.height)
        /\ (MovePredator /\ HasCell(environment, predators[1].x, predators[1].y)) =>
              \E d \in StepsOfPredator :
                 LandsOn(predators[1], predators'[1], d, environment.width, environment.height)
      ]_vars

C23_WitnessAbsent ==
    /\ hist.call = "getPhenotype"
    /\ hist.trait = "temperature_tolerance"
    /\ hist.trait \notin DOMAIN hist.a

\* C24: both alleles of metabolism_efficiency and of feeding_efficiency of every
\* prey, constructed or born, lie in [0.1, 2.0]; so does their mean, and the
\* divisor of the metabolic cost is not zero.
C24_ClampedAllelesInRange ==
    \A k \in 1 .. Len(organisms) :
        \A t \in ClampedTraits :
            /\ t \in DOMAIN organisms[k].genes
            /\ \A i \in { 1, 2 } :
                  /\ organisms[k].genes[t][i] >= AlleleMin
                  /\ organisms[k].genes[t][i] <= AlleleMax
            /\ getPhenotype(organisms[k].genes, t).twice >= 2 * AlleleMin
            /\ getPhenotype(organisms[k].genes, t).twice <= 2 * AlleleMax
            /\ getPhenotype(organisms[k].genes, "metabolism_efficiency").twice # 0

\* an offspring has been born whose mutation ran into the clamp: the allele it
\* inherited, less the largest mutation step, lies below 0.1
C24_Witness ==
    /\ hist.call = "reproduce"
    /\ Len(organisms) = 3
    /\ \E t \in ClampedTraits, i \in { 1, 2 } :
          /\ hist.inherited[t][i] - MUTATION_AMOUNT < AlleleMin
          /\ hist.inherited[t][i] > AlleleMin
          /\ organisms[3].genes[t][i] = AlleleMin

\* a constructor call ran into the clamp at the upper end
C24_WitnessSeeded ==
    /\ MUTATION_RATE = 0
    /\ Len(organisms) >= 1
    /\ organisms[1].genes["feeding_efficiency"][2] = AlleleMax
    /\ config.avgFeeding + INITIAL_GENE_VARIATION \div 2 - 1 > AlleleMax

\* C30: for every gene both parents hold, the pair the offspring inherits is one
\* allele of parent A's pair followed by one allele of parent B's pair; with a
\* mutation rate of 0 the genome of the offspring is the inherited one.
C30_OneAlleleFromEachParent ==
    hist.call = "reproduce" =>
        /\ \A t \in (DOMAIN hist.a) \cap (DOMAIN hist.b) :
              /\ t \in DOMAIN hist.inherited
              /\ hist.inherited[t][1] \in { hist.a[t][1], hist.a[t][2] }
              /\ hist.inherited[t][2] \in { hist.b[t][1], hist.b[t][2] }
        /\ MUTATION_RATE = 0 =>
              /\ hist.returned = hist.inherited
              /\ organisms[Len(organisms)].genes = hist.inherited

\* with the mutation off an offspring has got a pair of metabolism alleles that
\* neither parent has: the second allele of A and the first of B
C30_Witness ==
    /\ hist.call = "reproduce"
    /\ MUTATION_RATE = 0
    /\ "metabolism_efficiency" \in (DOMAIN hist.a) \cap (DOMAIN hist.b)
    /\ LET pa == hist.a["metabolism_efficiency"]
           pb == hist.b["metabolism_efficiency"]
           po == organisms[Len(organisms)].genes["metabolism_efficiency"]
       IN /\ pa[1] # pa[2]
          /\ pb[1] # pb[2]
          /\ po = << pa[2], pb[1] >>
          /\ po # pa
          /\ po # pb

\* the partner lacks a gene and the offspring has got the pair of parent A
C30_WitnessFallback ==
    /\ hist.call = "reproduce"
    /\ "temperature_tolerance" \in (DOMAIN hist.a) \ (DOMAIN hist.b)
    /\ hist.inherited["temperature_tolerance"] = hist.a["temperature_tolerance"]

\* the place of a phase in the tick
PhaseRank(p) ==
    IF p = "idle" THEN 0 ELSE IF p = "pred" THEN 1 ELSE IF p = "prey" THEN 2
    ELSE IF p = "repro" THEN 3 ELSE 4

\* where each prey stands and what energy it has, by id
PreyPlaces(list) ==
    { << list[k].id, list[k].x, list[k].y, list[k].energy >> : k \in 1 .. Len(list) }

\* C25: a tick runs its steps in the order environment update and spatial index,
\* predators, prey, reproduction, statistics and extinction check, each step
\* finishing before the next starts; every hunt of the tick is decided before
\* any prey moves, feeds or is removed.
C25_TickStepOrder ==
    [][ /\ pc' # pc => PhaseRank(pc') = (PhaseRank(pc) + 1) % 5
        /\ (pc = "idle" /\ pc' = "pred") =>
              /\ tick_count' = tick_count + 1
              /\ \A k \in 1 .. Len(organisms') :
                    organisms'[k].id \in SeqToSet(LookupAt(preySpatialLookup',
                                                           << organisms'[k].x, organisms'[k].y >>))
        /\ pc # "idle" =>
              /\ tick_count' = tick_count
              /\ environment'.temperature = environment.temperature
              /\ preySpatialLookup' # preySpatialLookup => pc = "publish"
        /\ (pc = "pred" /\ pc' = "prey") => idx = 0
        /\ (pc = "prey" /\ pc' = "repro") => idx = 0
        /\ (pc = "repro" /\ pc' = "publish") => idx > Len(preyPotentialParents)
        /\ (predators' # predators \/ huntedPreyIds' # huntedPreyIds \/ hist'.kills # hist.kills) =>
              \/ pc = "idle"
              \/ pc = "publish" /\ predators' = predators /\ hist'.kills = hist.kills
              \/ /\ pc = "pred"
                 /\ hist.updated = << >>
                 /\ hist.removed = << >>
                 /\ PreyPlaces(organisms') = PreyPlaces(organisms)
                 /\ environment' = environment
        /\ (PreyPlaces(organisms') # PreyPlaces(organisms) \/ environment' # environment) =>
              pc \in { "idle", "prey", "repro" }
        /\ (pc = "prey" /\ PreyPlaces(organisms') # PreyPlaces(organisms)) =>
              /\ preyNewborns = << >>
              /\ hist.matings = << >>
        /\ (preyNewborns' # preyNewborns \/ hist'.matings # hist.matings) =>
              pc \in { "idle", "repro", "publish" }
        /\ (uiStats' # uiStats \/ isRunning' # isRunning) => pc \in { "idle", "publish" }
      ]_vars

\* a tick is over in which a predator hunted, the hunted prey was removed and
\* another prey was updated
C25_Witness ==
    /\ hist.outcome = "completed"
    /\ pc = "idle"
    /\ hist.kills # << >>
    /\ hist.removed # << >>
    /\ hist.updated # << >>

\* the ids of the prey the predators hunted in the tick in progress
HuntedIds == { hist.kills[k].prey : k \in 1 .. Len(hist.kills) }

\* the ids of a list of agents
AgentIds(list) == { list[k].id : k \in 1 .. Len(list) }

\* C26: once the loops of a tick are over, every predator of the start of the tick
\* that is still there is exactly one tick older, every prey of the start of the
\* tick that was not hunted has been updated exactly once and is, if still there,
\* exactly one tick older, no hunted prey has been updated, and the offspring of
\* the tick have not been updated.
C26_EachAgentUpdatedOnce ==
    pc = "publish" =>
        /\ AgentIds(predators) \subseteq AgentIds(hist.before.predators)
        /\ \A k \in 1 .. Len(predators) :
              predators[k].age = ById(hist.before.predators, predators[k].id).age + 1
        /\ Cardinality(AgentIds(predators)) = Len(predators)
        /\ SeqToSet(hist.updated) = AgentIds(hist.start) \ HuntedIds
        /\ Cardinality(SeqToSet(hist.updated)) = Len(hist.updated)
        /\ { hist.removed[k].org.id : k \in 1 .. Len(hist.removed) } = HuntedIds
        /\ Cardinality(AgentIds(organisms)) = Len(organisms)
        /\ \A k \in 1 .. Len(organisms) :
              IF organisms[k].id \in AgentIds(hist.start)
              THEN /\ organisms[k].id \notin HuntedIds
                   /\ organisms[k].age = ById(hist.start, organisms[k].id).age + 1
              ELSE /\ organisms[k].age = 0
                   /\ organisms[k].id \notin SeqToSet(hist.updated)
                   /\ organisms[k].id \in { hist.matings[m].child : m \in 1 .. Len(hist.matings) }

\* the loops of a tick are over in which an agent was removed from the middle of
\* its collection while others, before and after it, were updated
C26_Witness ==
    /\ pc = "publish"
    /\ \E k \in 2 .. (Len(hist.start) - 1) :
          /\ hist.start[k].id \in HuntedIds
          /\ hist.start[k - 1].id \in SeqToSet(hist.updated)
          /\ hist.start[k + 1].id \in SeqToSet(hist.updated)
    /\ hist.removed # << >>

\* the loops of a tick are over in which an offspring was born
C26_WitnessBirth ==
    /\ pc = "publish"
    /\ hist.matings # << >>
    /\ \E k \in 1 .. Len(organisms) : organisms[k].id \notin AgentIds(hist.start)

\* the prey with this id is in the collection, alive, has not reproduced in this
\* tick, is old enough, has the energy, and was not hunted
FitParent(id) ==
    /\ \E k \in 1 .. Len(organisms) : organisms[k].id = id
    /\ \A k \in 1 .. Len(organisms) :
          organisms[k].id = id =>
             /\ organisms[k].alive
             /\ ~organisms[k].hasReproducedThisTick
             /\ organisms[k].age >= effectiveReproductionAge(organisms[k])
             /\ organisms[k].energy >= REPRODUCTION_ENERGY_THRESHOLD * Scale
    /\ id \notin huntedPreyIds
    /\ id \notin HuntedIds

\* C27: every offspring has two distinct parents that, when they mate, are both
\* in the prey collection, alive, not yet flagged as having reproduced in this
\* tick, at least of the effective reproduction age and at least at the energy
\* threshold; a prey hunted in this tick is never a parent.
C27_ParentsEligible ==
    [][ /\ preyNewborns' # preyNewborns /\ preyNewborns' # << >> =>
              /\ Len(preyNewborns') = Len(preyNewborns) + 1
              /\ Len(hist'.matings) = Len(hist.matings) + 1
              /\ LET m == hist'.matings[Len(hist'.matings)]
                 IN /\ m.child = preyNewborns'[Len(preyNewborns')].id
                    /\ m.a # m.b
                    /\ FitParent(m.a)
                    /\ FitParent(m.b)
        /\ Len(hist'.matings) > Len(hist.matings) => Len(preyNewborns') = Len(preyNewborns) + 1
      ]_vars

\* two prey have mated in a tick in which another prey was hunted
C27_Witness ==
    /\ hist.matings # << >>
    /\ preyNewborns # << >>
    /\ hist.kills # << >>

\* two prey have mated
C27_WitnessMating ==
    /\ pc = "repro"
    /\ Len(hist.matings) = 1
    /\ Len(preyNewborns) = 1
    /\ \E k \in 1 .. Len(organisms) : organisms[k].id = hist.matings[1].a /\ organisms[k].hasReproducedThisTick

\* a prey has looked for a partner among living prey that lack the energy or the
\* age, and no offspring has come of it
C27_WitnessRefused ==
    /\ pc = "repro"
    /\ idx > 1
    /\ idx <= Len(preyPotentialParents) + 1
    /\ preyNewborns = << >>
    /\ \E k \in 1 .. Len(organisms) :
          /\ organisms[k].id = preyPotentialParents[idx - 1]
          /\ organisms[k].alive
          /\ ~organisms[k].hasReproducedThisTick
    /\ \E k \in 1 .. Len(organisms) :
          /\ organisms[k].id # preyPotentialParents[idx - 1]
          /\ organisms[k].alive
          /\ ~organisms[k].hasReproducedThisTick
          /\ organisms[k].id \in SeqToSet(LookupAt(preySpatialLookup, << organisms[k].x, organisms[k].y >>))
          /\ \/ organisms[k].energy < REPRODUCTION_ENERGY_THRESHOLD * Scale
             \/ organisms[k].age < REPRODUCTION_AGE

\* the prey looking for a partner in the reproduction step about to run
Seeker == ById(organisms, preyPotentialParents[idx])

\* prey k passes the test the search puts to a partner of the seeker
FitPartner(k) ==
    /\ organisms[k].id # Seeker.id
    /\ organisms[k].alive
    /\ ~organisms[k].hasReproducedThisTick
    /\ organisms[k].age >= REPRODUCTION_AGE
    /\ organisms[k].energy >= REPRODUCTION_ENERGY_THRESHOLD * Scale

\* prey k stands in the cell of the seeker
InOwnCell(k) == organisms[k].x = Seeker.x /\ organisms[k].y = Seeker.y

\* prey k stands within MATING_SEARCH_RADIUS of the seeker on the torus
InReach(k) ==
    \E dx \in (0 - MATING_SEARCH_RADIUS) .. MATING_SEARCH_RADIUS,
       dy \in (0 - MATING_SEARCH_RADIUS) .. MATING_SEARCH_RADIUS :
        /\ organisms[k].x = TorusMod(Seeker.x + dx, config.gridWidth)
        /\ organisms[k].y = TorusMod(Seeker.y + dy, config.gridHeight)

\* the reproduction step about to run is a mate search
Searching ==
    /\ pc = "repro"
    /\ idx <= Len(preyPotentialParents)
    /\ Seeker.alive
    /\ ~Seeker.hasReproducedThisTick
    /\ Len(organisms) + Len(predators) + Len(preyNewborns) < config.maxPopulation

\* the grid is wide and high enough for no wrapped offset of the search to fall
\* on the seeker's own cell
WideGrid ==
    /\ config.gridWidth >= 2 * MATING_SEARCH_RADIUS + 1
    /\ config.gridHeight >= 2 * MATING_SEARCH_RADIUS + 1

\* the partner of the mating the step has recorded, as it was before the step
MatedWith(k) ==
    /\ Len(hist'.matings) = Len(hist.matings) + 1
    /\ hist'.matings[Len(hist'.matings)].a = Seeker.id
    /\ hist'.matings[Len(hist'.matings)].b = organisms[k].id

CombinedPopulation == Len(organisms) + Len(predators) + Len(preyNewborns)

\* the energies and flags of the prey, by id
PreyAccounts(list) ==
    { << list[k].id, list[k].energy, list[k].hasReproducedThisTick >> : k \in 1 .. Len(list) }

\* C29: in the reproduction phase, once prey, predators and the offspring born
\* so far in the tick have reached maxPopulation no offspring is created; a step
\* that creates no offspring leaves every prey's energy and flag alone; and the
\* population with the offspring is never above the larger of maxPopulation and
\* the population the phase started with.
C29_NoBirthAtCap ==
    [][ pc = "repro" =>
          /\ CombinedPopulation >= config.maxPopulation =>
                /\ preyNewborns' = preyNewborns
                /\ hist'.matings = hist.matings
                /\ nextOrganismId' = nextOrganismId
          /\ (pc' = "repro" /\ preyNewborns' = preyNewborns) =>
                /\ PreyAccounts(organisms') = PreyAccounts(organisms)
                /\ hist'.matings = hist.matings
          /\ pc' = "repro" =>
                /\ Len(organisms') = Len(organisms)
                /\ Len(preyNewborns') <= Len(preyNewborns) + 1
                /\ \/ Len(preyNewborns') = 0
                   \/ Len(organisms') + Len(predators') + Len(preyNewborns') <= config.maxPopulation
          /\ pc' = "publish" =>
                /\ Len(organisms') = Len(organisms) + Len(preyNewborns)
                /\ Len(organisms') + Len(predators')
                     <= Max2(config.maxPopulation, Len(organisms) + Len(predators))
          /\ config' = config
      ]_vars

\* the population has reached maxPopulation with an offspring of this tick
\* counted in, the loop has stopped, and two prey fit to mate are left
C29_Witness ==
    /\ pc = "repro"
    /\ preyNewborns # << >>
    /\ CombinedPopulation >= config.maxPopulation
    /\ idx = Len(preyPotentialParents) + 1
    /\ \E a, b \in 1 .. Len(organisms) :
          /\ a # b
          /\ organisms[a].id \in SeqToSet(preyPotentialParents)
          /\ \A k \in { a, b } :
                /\ organisms[k].alive
                /\ ~organisms[k].hasReproducedThisTick
                /\ organisms[k].age >= REPRODUCTION_AGE
                /\ organisms[k].energy >= REPRODUCTION_ENERGY_THRESHOLD * Scale

\* C31 as stated: a gene only one of the two parents holds, whichever it is,
\* reaches the offspring as a copy of that parent's pair.
C31_FallbackFromEitherParent ==
    hist.call = "reproduce" =>
        /\ \A t \in (DOMAIN hist.a) \ (DOMAIN hist.b) :
              t \in DOMAIN hist.inherited /\ hist.inherited[t] = hist.a[t]
        /\ \A t \in (DOMAIN hist.b) \ (DOMAIN hist.a) :
              t \in DOMAIN hist.inherited /\ hist.inherited[t] = hist.b[t]

\* C31, amended: a gene that only the parent reproduce() is called on holds
\* reaches the offspring as a copy of that parent's pair; a gene that only the
\* partner holds does not reach the offspring at all, before or after the
\* mutation.
C31_FallbackFromParentA ==
    hist.call = "reproduce" =>
        /\ \A t \in (DOMAIN hist.a) \ (DOMAIN hist.b) :
              t \in DOMAIN hist.inherited /\ hist.inherited[t] = hist.a[t]
        /\ \A t \in (DOMAIN hist.b) \ (DOMAIN hist.a) :
              /\ t \notin DOMAIN hist.inherited
              /\ t \notin DOMAIN hist.returned
              /\ t \notin DOMAIN organisms[Len(organisms)].genes
        /\ DOMAIN hist.inherited = DOMAIN hist.a

\* an offspring has been born to a partner that holds the temperature gene and a
\* parent A that does not, and it does not hold the gene
C31_Witness ==
    /\ hist.call = "reproduce"
    /\ "temperature_tolerance" \in (DOMAIN hist.b) \ (DOMAIN hist.a)
    /\ "temperature_tolerance" \notin DOMAIN organisms[Len(organisms)].genes

\* an offspring has been born to a parent A with a heterozygous temperature pair
\* and a partner without the gene, and it holds the pair of A in A's order
C31_WitnessParentA ==
    /\ hist.call = "reproduce"
    /\ "temperature_tolerance" \in (DOMAIN hist.a) \ (DOMAIN hist.b)
    /\ hist.a["temperature_tolerance"] = << "H", "L" >>
    /\ hist.inherited["temperature_tolerance"] = << "H", "L" >>

\* the genome holds a pair of alleles for each of the eight prey traits and for
\* nothing else, and its temperature alleles are H or L
WholeGenome(genes) ==
    /\ DOMAIN genes = PreyTraits
    /\ \A t \in PreyTraits : DOMAIN genes[t] = { 1, 2 }
    /\ genes["temperature_tolerance"][1] \in { "H", "L" }
    /\ genes["temperature_tolerance"][2] \in { "H", "L" }

\* C32: every prey of the simulation, seeded or born, in the collection or
\* waiting among the newborns of the tick, holds exactly two alleles for every
\* prey trait, and its temperature alleles are H or L.
C32_WholeGenomes ==
    /\ \A k \in 1 .. Len(organisms) : WholeGenome(organisms[k].genes)
    /\ \A k \in 1 .. Len(preyNewborns) : WholeGenome(preyNewborns[k].genes)

\* a prey has been born whose temperature allele is not one of its parents': the
\* mutation has flipped it
C32_Witness ==
    /\ hist.matings # << >>
    /\ \E k \in 1 .. Len(organisms), a, b \in 1 .. Len(organisms) :
          /\ organisms[k].id = hist.matings[1].child
          /\ organisms[a].id = hist.matings[1].a
          /\ organisms[b].id = hist.matings[1].b
          /\ organisms[a].genes["temperature_tolerance"] = << "L", "L" >>
          /\ organisms[b].genes["temperature_tolerance"] = << "L", "L" >>
          /\ organisms[k].genes["temperature_tolerance"] # << "L", "L" >>

\* the same for the offspring of two constructed parents that hold all eight
\* traits, whatever their alleles
C32_WholeFromWholeParents ==
    (/\ hist.call = "reproduce"
     /\ WholeGenome(hist.a)
     /\ WholeGenome(hist.b))
    => WholeGenome(organisms[Len(organisms)].genes)

\* the living prey the predator detects: within its detection range, by squared
\* distance on the plain coordinates
Detected(pred) ==
    { k \in 1 .. Len(organisms) :
        /\ organisms[k].alive
        /\ ((pred.x - organisms[k].x) * (pred.x - organisms[k].x)
            + (pred.y - organisms[k].y) * (pred.y - organisms[k].y)) * Scale * Scale
             <= pred.genes.detection_range * pred.genes.detection_range }

\* the detected prey none of which is nearer
Nearest(pred) ==
    { k \in Detected(pred) :
        \A j \in Detected(pred) :
            (pred.x - organisms[k].x) * (pred.x - organisms[k].x)
            + (pred.y - organisms[k].y) * (pred.y - organisms[k].y)
              <= (pred.x - organisms[j].x) * (pred.x - organisms[j].x)
                 + (pred.y - organisms[j].y) * (pred.y - organisms[j].y) }

\* the sign of a coordinate delta
SignOf(a) == IF a > 0 THEN 1 ELSE IF a < 0 THEN 0 - 1 ELSE 0

\* the step towards prey k: the sign of the delta on each axis
StepTowards(pred, k) == << SignOf(organisms[k].x - pred.x), SignOf(organisms[k].y - pred.y) >>

\* C33: a predator that detects a living prey steps, on each axis, by the sign of
\* the coordinate delta to the nearest detected prey.
C33_StepTowardsNearestPrey ==
    [][ (/\ MovePredator
         /\ HasCell(environment, predators[1].x, predators[1].y)
         /\ Detected(predators[1]) # {})
        => \E k \in Nearest(predators[1]) :
              LandsOn(predators[1], predators'[1], StepTowards(predators[1], k),
                      gridWidth, gridHeight)
      ]_vars

\* what holds instead: the predator steps towards the nearest detected prey when
\* that prey stands in another cell, and takes a random step, as when it detects
\* none, when the prey stands in the predator's own cell
PredatorStepsTowardsOtherCell ==
    [][ (/\ MovePredator
         /\ HasCell(environment, predators[1].x, predators[1].y)
         /\ Detected(predators[1]) # {})
        => \E k \in Nearest(predators[1]) :
              IF StepTowards(predators[1], k) # << 0, 0 >>
              THEN LandsOn(predators[1], predators'[1], StepTowards(predators[1], k),
                           gridWidth, gridHeight)
              ELSE \E rdx \in Steps, rdy \in Steps :
                      LandsOn(predators[1], predators'[1], << rdx, rdy >>, gridWidth, gridHeight)
      ]_vars

\* a predator standing on the prey it detects has stepped off its cell
PredatorLeftItsPrey ==
    /\ isRunning
    /\ idx = 1
    /\ Len(organisms) = 1
    /\ Len(predators) = 1
    /\ organisms[1].alive
    /\ gridWidth = environment.width
    /\ gridWidth >= 3
    /\ predators[1].energy < PREDATOR_INITIAL_ENERGY
    /\ predators[1].x = TorusMod(organisms[1].x + 1, gridWidth)
    /\ predators[1].y = organisms[1].y

\* the counts a snapshot holds for a trait, added up over its categories
CountsOf(stats, t) == Sum(StatCategories[t], stats.counts[t])

\* C34: in the snapshot of a completed tick with prey alive, the category counts
\* of each discrete trait (temperature tolerance, size, speed, camouflage,
\* reproductive rate, resistance) add up to the prey count.
C34_CountsAddUp ==
    (/\ hist.outcome = "completed"
     /\ pc = "idle"
     /\ uiStats.preyPopulation > 0)
    => \A t \in { "temperature_tolerance", "size", "speed", "camouflage", "reproductive_rate",
                  "resistance" } :
          CountsOf(uiStats, t) = uiStats.preyPopulation

\* what holds instead: the counts of the temperature tolerance add up to the prey
\* count, and every count of the other five traits is 0
OnlyTemperatureCounted ==
    /\ CountsOf(uiStats, "temperature_tolerance") = uiStats.preyPopulation
    /\ \A t \in (DOMAIN StatCategories) \ { "temperature_tolerance" } :
          \A c \in StatCategories[t] : uiStats.counts[t][c] = 0

\* a tick has been completed with prey of two temperature phenotypes alive
TwoPhenotypesCounted ==
    /\ hist.outcome = "completed"
    /\ pc = "idle"
    /\ uiStats.preyPopulation >= 2
    /\ uiStats.counts["temperature_tolerance"]["Medium"] >= 1
    /\ uiStats.counts["temperature_tolerance"]["Low"] >= 1

-----------------------------------------------------------------------------
(* The clustered placement of the constructor, one sampling attempt of
   _generateClusterCenters a step.  The simulation calls it with NUM_CLUSTERS
   and MIN_CLUSTER_DISTANCE; the smaller numClusters lets the loop end on a
   full list where the grid has room for two centres only.  The grids: one with
   room for two centres MIN_CLUSTER_DISTANCE apart, and one narrower than the
   two margins, where getRandomInt is called with max below min. *)

NUM_CLUSTERS == 4
MIN_CLUSTER_DISTANCE == 35
FewClusters == 2

ClusterInputs ==
    { [numClusters |-> NUM_CLUSTERS, width |-> 64, height |-> 29],
      [numClusters |-> FewClusters, width |-> 64, height |-> 29],
      [numClusters |-> NUM_CLUSTERS, width |-> 27, height |-> 28] }

\* const maxAttempts = numClusters * 150
maxAttempts(numClusters) == numClusters * 150

\* the locals of _generateClusterCenters, and whether it has returned
ClusterRun(numClusters, minDistance, centers, attempts, returned) ==
    [numClusters |-> numClusters, minDistance |-> minDistance, centers |-> centers,
     attempts |-> attempts, returned |-> returned]

\* while (centers.length < numClusters && attempts < maxAttempts)
SamplingGoesOn(run) ==
    /\ Len(run.centers) < run.numClusters
    /\ run.attempts < maxAttempts(run.numClusters)

\* a distance check that compares the squared distance with minDistance
tooCloseUnsquared(centers, c, minDistance) ==
    \E k \in 1 .. Len(centers) : DistSq(c, centers[k]) < minDistance

\* the distance check against the centres kept so far: distSq < minDistanceSq
tooClose(centers, c, minDistance) ==
    \E k \in 1 .. Len(centers) : DistSq(c, centers[k]) < minDistance * minDistance

\* the constructor's clustered rule: a cell is a node when it is within
\* CLUSTER_RADIUS of a centre
ClusteredNodes(centers, w, h) ==
    { c \in Cells(w, h) :
        \E k \in 1 .. Len(centers) :
            (c[1] - centers[k].x) * (c[1] - centers[k].x)
              + (c[2] - centers[k].y) * (c[2] - centers[k].y)
                <= CLUSTER_RADIUS * CLUSTER_RADIUS }

\* new Environment(w, h, nodeDensity, 'clustered') entered: width and height
\* are set, the grid is empty, _generateClusterCenters starts
ClusterInit ==
    /\ MUTATION_RATE = 0
    /\ \E input \in ClusterInputs :
          /\ gridWidth = input.width
          /\ gridHeight = input.height
          /\ config = ModelSettings(input.width, input.height, 4)
          /\ hist = ClusterRun(input.numClusters, MIN_CLUSTER_DISTANCE, << >>, 0, FALSE)
    /\ environment = [NoEnv EXCEPT !.width = gridWidth, !.height = gridHeight,
                                   !.temperature = TEMP_BASE * Scale]
    /\ organisms = << >>
    /\ predators = << >>
    /\ tick_count = 0
    /\ isRunning = FALSE
    /\ tickInterval = NoTimer
    /\ timers = {}
    /\ nextOrganismId = 0
    /\ resourcePlacementMode = "clustered"
    /\ manuallyPlacedNodes = << >>
    /\ pc = "sampling"
    /\ idx = 0
    /\ preySpatialLookup = << >>
    /\ huntedPreyIds = {}
    /\ preyPotentialParents = << >>
    /\ preyNewborns = << >>
    /\ uiMessage = "none"
    /\ uiStats = calculateStats(0, << >>, << >>)

clusterOther ==
    << config, gridWidth, gridHeight, MUTATION_RATE, organisms, predators, tick_count,
       isRunning, tickInterval, timers, nextOrganismId, resourcePlacementMode,
       manuallyPlacedNodes, idx, preySpatialLookup, huntedPreyIds, preyPotentialParents,
       preyNewborns, uiMessage, uiStats >>

\* one pass of the while loop
ClusterSample ==
    /\ pc = "sampling"
    /\ SamplingGoesOn(hist)
    /\ \E cx \in getRandomInt(CLUSTER_RADIUS + 2, environment.width - 1 - (CLUSTER_RADIUS + 2)),
          cy \in getRandomInt(CLUSTER_RADIUS + 2, environment.height - 1 - (CLUSTER_RADIUS + 2)) :
          hist' = [hist EXCEPT
                     !.attempts = @ + 1,
                     !.centers = IF tooClose(@, [x |-> cx, y |-> cy], hist.minDistance)
                                 THEN @ ELSE Append(@, [x |-> cx, y |-> cy])]
    /\ UNCHANGED << pc, environment, clusterOther >>

\* the loop is left; return centers
ClusterReturn ==
    /\ pc = "sampling"
    /\ ~ SamplingGoesOn(hist)
    /\ hist' = [hist EXCEPT !.returned = TRUE]
    /\ pc' = "building"
    /\ UNCHANGED << environment, clusterOther >>

\* the constructor's loop over the cells
ClusterBuild ==
    /\ pc = "building"
    /\ environment' = EnvWithNodes(environment.width, environment.height,
                                   ClusteredNodes(hist.centers, environment.width,
                                                  environment.height))
    /\ pc' = "idle"
    /\ UNCHANGED << hist, clusterOther >>

ClusterNext == ClusterSample \/ ClusterReturn \/ ClusterBuild

\* the constructor is one synchronous call: it runs on until it returns
ClusterSpec == ClusterInit /\ [][ClusterNext]_vars /\ WF_vars(ClusterNext)

\* the squared distance of a cell from a centre
CellDistSq(c, centre) ==
    (c[1] - centre.x) * (c[1] - centre.x) + (c[2] - centre.y) * (c[2] - centre.y)

\* C35, the bounds: never more than numClusters x 150 attempts, never more than
\* numClusters centres, every two centres at least MIN_CLUSTER_DISTANCE apart,
\* and once the grid is built a cell is a node, and listed as one, exactly when
\* it is within CLUSTER_RADIUS of a returned centre.
ClusterCentresBounded ==
    /\ hist.attempts <= hist.numClusters * 150
    /\ Len(hist.centers) <= hist.numClusters
    /\ \A i, j \in 1 .. Len(hist.centers) :
          i # j => DistSq(hist.centers[i], hist.centers[j])
                     >= MIN_CLUSTER_DISTANCE * MIN_CLUSTER_DISTANCE
    /\ pc = "idle" =>
          /\ hist.returned
          /\ \A c \in Cells(environment.width, environment.height) :
                /\ environment.grid[c].isNode
                     <=> \E k \in 1 .. Len(hist.centers) :
                            CellDistSq(c, hist.centers[k]) <= CLUSTER_RADIUS * CLUSTER_RADIUS
                /\ environment.grid[c].isNode
                     <=> \E n \in 1 .. Len(environment.resourceNodes) :
                            environment.resourceNodes[n] = c

\* C35: cluster-centre generation always returns, after at most
\* numClusters x 150 sampling attempts, at most numClusters centres that are
\* pairwise at least MIN_CLUSTER_DISTANCE apart, and the clustered grid has its
\* nodes exactly within CLUSTER_RADIUS of the returned centres.
C35_ClusterCentres == [] ClusterCentresBounded /\ <> (pc = "idle")

\* the retry budget ran out: fewer centres than asked for, and a grid all the same
C35_Witness ==
    /\ pc = "idle"
    /\ hist.numClusters = NUM_CLUSTERS
    /\ hist.attempts = NUM_CLUSTERS * 150
    /\ Len(hist.centers) = 2
    /\ Len(environment.resourceNodes) > 0

\* the list is full before the budget is used up
C35_WitnessFull ==
    /\ pc = "idle"
    /\ Len(hist.centers) = hist.numClusters
    /\ hist.attempts < hist.numClusters * 150

\* a range with max below min: the one centre kept, the budget used up
C35_WitnessNarrow ==
    /\ pc = "idle"
    /\ environment.width = 27
    /\ Len(hist.centers) = 1
    /\ hist.centers[1].x = 13
    /\ hist.attempts = NUM_CLUSTERS * 150

-----------------------------------------------------------------------------
(* Calls on the environment with coordinates outside the grid *)

OutsideCall ==
    /\ hist.call \in { "getCell", "consume", "toggle" }
    /\ ~ (hist.x >= 0 /\ hist.x < hist.before.width /\ hist.y >= 0 /\ hist.y < hist.before.height)

\* C36: with coordinates outside [0, width) x [0, height), getCell returns
\* null, consumeResourceAt returns 0 and toggleNode returns false, and the
\* call changes no cell and not the list of node coordinates.
C36_OutsideCallsChangeNothing ==
    OutsideCall =>
        /\ hist.returned = 0
        /\ environment.grid = hist.before.grid
        /\ environment.resourceNodes = hist.before.resourceNodes
        /\ environment = hist.before

\* toggleNode left of the grid, on an environment with a node
C36_Witness ==
    /\ OutsideCall
    /\ hist.call = "toggle"
    /\ hist.x < 0
    /\ Len(environment.resourceNodes) > 0

\* consumeResourceAt below the grid, for more than nothing
C36_WitnessConsume ==
    /\ OutsideCall
    /\ hist.call = "consume"
    /\ hist.y >= hist.before.height
    /\ hist.amount > 0

\* getCell right of the grid and above it
C36_WitnessGetCell ==
    /\ OutsideCall
    /\ hist.call = "getCell"
    /\ hist.x = hist.before.width \/ hist.y < 0

\* the same calls inside the grid do return a cell and do change the grid
C36_WitnessInside ==
    /\ hist.call = "toggle"
    /\ ~ OutsideCall
    /\ hist.returned = 1
    /\ environment # hist.before

-----------------------------------------------------------------------------
(* The agents and the grid of the environment *)

AgentPlaces ==
    { << organisms[k].x, organisms[k].y >> : k \in 1 .. Len(organisms) }
      \cup { << predators[k].x, predators[k].y >> : k \in 1 .. Len(predators) }

\* C37: in every reachable state every prey and every predator has coordinates
\* inside the grid of the current environment, 0 <= x < environment.width and
\* 0 <= y < environment.height.
C37_AgentsInsideGrid ==
    environment # NoEnv =>
        \A c \in AgentPlaces :
            c[1] >= 0 /\ c[1] < environment.width /\ c[2] >= 0 /\ c[2] < environment.height

\* what does hold: the agents are inside the grid of the module-level
\* gridWidth and gridHeight, the size reset() seeded them on and _move wraps on
AgentsInsideModuleGrid ==
    \A c \in AgentPlaces : c[1] >= 0 /\ c[1] < gridWidth /\ c[2] >= 0 /\ c[2] < gridHeight

\* a running simulation whose environment is narrower than the grid its agents
\* were seeded on
AgentOutsideWhileRunning ==
    /\ isRunning
    /\ environment # NoEnv
    /\ environment.width < gridWidth
    /\ \E c \in AgentPlaces : ~ HasCell(environment, c[1], c[2])

-----------------------------------------------------------------------------
(* The distance of the two parents of a mating *)

\* the distance of two coordinates on an axis of n cells that wraps around
TorusGap(a, b, n) == Min2(Abs(a - b), n - Abs(a - b))

\* two places are within reach cells of each other on each axis
Within(a, b, reach) ==
    /\ TorusGap(a.x, b.x, config.gridWidth) <= reach
    /\ TorusGap(a.y, b.y, config.gridHeight) <= reach

\* the matings of the tick: the two parents as they stand now and the partner
\* as the tick found it when it built the spatial lookup
Matings ==
    { [a |-> ById(organisms, hist.matings[m].a),
       b |-> ById(organisms, hist.matings[m].b),
       indexed |-> ById(hist.start, hist.matings[m].b)] : m \in 1 .. Len(hist.matings) }

\* C38 as stated: when an offspring is created its two parents are within
\* MATING_SEARCH_RADIUS cells of each other on each axis (toroidal distance),
\* measured on their current locations.
C38_ParentsWithinRadius ==
    \A m \in Matings : Within(m.a, m.b, MATING_SEARCH_RADIUS)

\* C38, amended: when an offspring is created the place the partner had when
\* the tick built its spatial lookup, before the prey moved, is within
\* MATING_SEARCH_RADIUS cells of the seeker's current location on each axis;
\* the partner's current location is within MATING_SEARCH_RADIUS + 1.
C38_ParentsWithinRadiusOfIndex ==
    \A m \in Matings :
        /\ Within(m.a, m.indexed, MATING_SEARCH_RADIUS)
        /\ Within(m.a, m.b, MATING_SEARCH_RADIUS + 1)

\* a mating of a partner that has stepped out of the seeker's reach
C38_Witness ==
    \E m \in Matings :
        /\ ~ Within(m.a, m.b, MATING_SEARCH_RADIUS)
        /\ Within(m.a, m.indexed, MATING_SEARCH_RADIUS)
        /\ m.b # m.indexed

\* a mating of a partner still in reach
C38_WitnessNear ==
    \E m \in Matings : Within(m.a, m.b, MATING_SEARCH_RADIUS) /\ m.a.x # m.b.x

\* no mating although the two fit prey now stand in each other's reach: the
\* lookup has the partner where it was
C38_WitnessMissed ==
    /\ pc = "publish"
    /\ hist.matings = << >>
    /\ Len(organisms) = 2
    /\ Within(organisms[1], organisms[2], MATING_SEARCH_RADIUS)
    /\ IsPotentialParent(organisms[1]) /\ IsPotentialParent(organisms[2])

-----------------------------------------------------------------------------
(* The running flag and the interval timer *)

\* the running flag is set exactly when a timer is scheduled, the timer
\* scheduled is the one tickInterval names, and there is no second one
RunningIffTimer ==
    /\ isRunning <=> timers # {}
    /\ Cardinality(timers) <= 1
    /\ isRunning => timers = { tickInterval }
    /\ ~isRunning => tickInterval = NoTimer

\* C39: isRunning is true exactly when a tick timer is scheduled and at most
\* one timer exists at any time; start() while running and stop() while idle
\* change nothing.
C39_RunningIffOneTimer ==
    /\ [] RunningIffTimer
    /\ [][ /\ (isRunning /\ Start) => UNCHANGED vars
           /\ (~isRunning /\ Stop) => UNCHANGED vars ]_vars

\* started again after a tick that failed had stopped the simulation
C39_Witness ==
    /\ pc = "idle"
    /\ hist.outcome = "failed"
    /\ isRunning
    /\ timers = { tickInterval }

\* stopped by a tick that found the prey extinct
C39_WitnessStopped ==
    /\ pc = "idle"
    /\ hist.outcome = "completed"
    /\ Len(organisms) = 0
    /\ ~isRunning
    /\ timers = {}

-----------------------------------------------------------------------------
(* stop() and then start() *)

C40_WitnessChanged ==
    /\ hist.outcome = "started"
    /\ hist.before.environment # NoEnv
    /\ environment.width # hist.before.environment.width
    /\ organisms = hist.before.organisms
    /\ tick_count = hist.before.tick_count

====
